---------------------------- MODULE Spec2Model ----------------------------
(***************************************************************************)
(* The deal-snapshot cache of the HubSpot deals viewer: db.js's deal cache *)
(* (in-memory slot or the cache_deals table), and server.js's              *)
(* GET /api/deals handler with its background reconciliation               *)
(* (fetchChangedDeals / fetchAllDeals), the stage PATCH handler and the    *)
(* clear-cache handler.  One request is one process; its steps are the     *)
(* awaits of its handler.  Further: getLastMeetingDate with the meeting    *)
(* cache of one company (SpecMeet), and one call of processBatch           *)
(* (SpecBatch).                                                            *)
(***************************************************************************)
EXTENDS Integers, Sequences, FiniteSets, TLC

\* ------------------------------------------------------------- bounds
MaxDeals == 3
MaxRequests == 3
MaxUpstreamOps == 2
\* A marker starts at 1 and each upstream change raises one marker by one.
MaxMarker == MaxUpstreamOps + 1
\* The deals that exist upstream at start-up; the others can be created.
InitialDeals == MaxDeals - 1

\* The meetings that can be associated with the company, the calls of
\* getLastMeetingDate, the changes of the association, the clock's last tick.
MaxMeetings == 3
MaxCalls == 3
MaxAssocOps == 1
MaxClock == 1
\* processBatch: the longest item list and the largest group size.
MaxItems == 4
MaxBatchSize == 3
MaxItemValue == 2

\* ---------------------------------------------------- program constants
BATCH_SIZE == 2
\* The batchSize getLastMeetingDate hands to processBatch.
MeetingBatchSize == 5
\* A property that is missing from an object (JavaScript's undefined).
Undefined == 0

\* A date that is null, or a property that is missing or empty.
NoTime == 0
\* The maxAgeMs getLastMeetingDate hands to getMeetingCache: above every age.
Infinity == MaxClock + 1

Deals == 1..MaxDeals
Req == 1..MaxRequests
Meetings == 1..MaxMeetings
Calls == 1..MaxCalls

VARIABLES
  USE_DATABASE,   \* db.js: which backing is active (fixed at start-up)
  memoryStore,    \* db.js: memoryStore.deals, null or {data, lastFetched}
  cache_deals,    \* db.js: the rows of table cache_deals, oldest insert first
  upstream,       \* HubSpot: deal id -> hs_lastmodifieddate (Undefined: no such deal)
  nextId,         \* HubSpot: the id the next created deal gets
  upVersion,      \* number of changes made to the upstream collection
  pc,             \* request -> the await the request is at
  kind,           \* request -> "get" | "clear" | "patch"
  loc,            \* request -> the local variables of its handler and pass
  resp,           \* request -> the HTTP response sent
  everWritten,    \* history: a setDealsCache has completed
  lastWrite,      \* history: what the most recently completed set/clear left
  \* getLastMeetingDate(companyId), for one company
  cache_meetings, \* db.js: the company's entry of memoryStore.meetings / cache_meetings
  assoc,          \* HubSpot: the ids of the meetings associated with the company
  assocVersion,   \* number of changes made to that association
  now,            \* the clock (Date.now(), NOW())
  mpc,            \* call -> the await the call is at
  mloc,           \* call -> the local variables of the call, and its logs
  \* processBatch(items, processFn, batchSize, delayMs), one call
  items,          \* processBatch: items
  batchSize,      \* processBatch: batchSize
  bpc,            \* the await processBatch is at
  iBatch,         \* processBatch: i, counted from 1
  batch,          \* the promises of batch.map(processFn), by position in the group
  settleOrder,    \* the positions of the group in the order their promises settled
  results,        \* processBatch: results
  blog,           \* logs: delays taken, invocations started and settled
  \* processFn of fetchAllDeals / fetchChangedDeals, over one group of deals
  gmode,          \* "all" (fetchAllDeals) | "changed" (fetchChangedDeals) | "off"
  gdeal,          \* position in the group -> what the deal's lookups will find
  gpc,            \* position in the group -> the await its processFn is at
  apiCalls,       \* position in the group -> hubspotApi.get calls issued so far
  \* db.js, both backings side by side under the same calls and clock
  kvMem,          \* memoryStore: deals, companies, contacts, meetings
  kvDb,           \* the tables cache_deals, cache_companies, cache_contacts, cache_meetings
  kvNow,          \* the clock both backings read (Date.now(), NOW())
  kvLog,          \* the last call, what each backing returned, and the call before it
  kvWritten,      \* history: cache -> key -> the value and time of the last set
  kvOps,          \* number of calls made
  \* nextSteps.js: generateNextStepForDeal and the stores behind it
  hub,            \* HubSpot: engagement id -> the engagement and what it is associated with
  engagements,    \* db.js: memoryStore.engagements, storage id -> array
  company_engagements, \* db.js: the rows of table company_engagements
  nextSteps,      \* db.js: memoryStore.nextSteps / table deal_next_steps, by deal id
  aiCount,        \* number of texts the generator has produced
  sugLog,         \* the last generateNextStepForDeal call and what it did
  sugHist,        \* history: deal -> a call completed, communication arrived since
  sugCalls,       \* number of calls made
  \* server.js: the stage part of processFn, for one deal
  stageHistory,   \* HubSpot: propertiesWithHistory.dealstage, oldest entry first
  dealstage,      \* HubSpot: deal.properties.dealstage
  stNow,          \* the clock (new Date())
  stEntry,        \* the deal's entry in the snapshot: absent, or its daysInStage
  stLog,          \* the last computation: its inputs and what it produced
  \* db.js: clearAllCaches, both backings side by side under the same calls
  clrMem,         \* memoryStore: the seven stores, each by the keys it holds
  clrDb,          \* the seven tables, each by the keys of its rows
  clrLog,         \* the last call made on the pair of backings
  \* server.js: a rejected query of the pool during GET /api/deals
  failLog,        \* history: request -> the query that rejected, the snapshot before and after
  \* server.js: refreshDealsInBackground
  isRefreshing,   \* server.js line 110: the in-progress flag
  rpc,            \* call of refreshDealsInBackground -> the await it is at
  freshData       \* call -> refreshDealsInBackground: freshData

dealVars == <<USE_DATABASE, memoryStore, cache_deals, upstream, nextId, upVersion,
              pc, kind, loc, resp, everWritten, lastWrite>>
meetVars == <<cache_meetings, assoc, assocVersion, now, mpc, mloc>>
batchVars == <<items, batchSize, bpc, iBatch, batch, settleOrder, results, blog>>
groupVars == <<gmode, gdeal, gpc, apiCalls>>
kvVars == <<kvMem, kvDb, kvNow, kvLog, kvWritten, kvOps>>
sugVars == <<hub, engagements, company_engagements, nextSteps, aiCount, sugLog,
             sugHist, sugCalls>>
stVars == <<stageHistory, dealstage, stNow, stEntry, stLog>>
auxVars == <<clrMem, clrDb, clrLog, failLog, isRefreshing, rpc, freshData>>
extVars == <<groupVars, kvVars, sugVars, stVars, auxVars>>
vars == <<dealVars, meetVars, batchVars, extVars>>

\* ------------------------------------------------------- sequence helpers
Range(s) == {s[k] : k \in 1..Len(s)}

Ids(data) == {data[k].id : k \in 1..Len(data)}

\* Array.prototype.map(d => d.id)
IdsOf(s) == [k \in 1..Len(s) |-> s[k].id]

\* The ascending sequence of the members of a finite set of integers.
RECURSIVE SortedSeq(_)
SortedSeq(S) ==
  IF S = {} THEN <<>>
  ELSE LET m == CHOOSE x \in S : \A y \in S : x <= y
       IN <<m>> \o SortedSeq(S \ {m})

\* --------------------------------------------------------- the snapshot
Null == [present |-> FALSE, data |-> <<>>]
Snapshot(d) == [present |-> TRUE, data |-> d]

\* A deal entry as fetchAllDeals builds it: no lastModifiedDate property.
BootstrapEntry(id) == [id |-> id, lastModifiedDate |-> Undefined]
\* A deal entry as fetchChangedDeals builds it.
DetailEntry(id, m) == [id |-> id, lastModifiedDate |-> m]

\* JSON.stringify drops a property whose value is undefined; reading the
\* missing property back gives undefined.
StringifyEntry(e) ==
  IF e.lastModifiedDate = Undefined THEN [id |-> e.id] ELSE e
ParseEntry(j) ==
  IF "lastModifiedDate" \in DOMAIN j THEN j
  ELSE [id |-> j.id, lastModifiedDate |-> Undefined]
Stringify(data) == [k \in 1..Len(data) |-> StringifyEntry(data[k])]
Parse(json) == [k \in 1..Len(json) |-> ParseEntry(json[k])]

\* db.getDealsCache: the slot, or the row with the greatest last_fetched
\* (NOW() at insert: the row inserted last).
GetDealsCache ==
  IF ~USE_DATABASE THEN memoryStore.deals
  ELSE IF Len(cache_deals) = 0 THEN Null
  ELSE Snapshot(Parse(cache_deals[Len(cache_deals)].data))

\* The number of snapshots the store holds.
StoredSnapshots ==
  IF ~USE_DATABASE THEN (IF memoryStore.deals.present THEN 1 ELSE 0)
  ELSE Len(cache_deals)

\* ------------------------------------------------------------- upstream
Live(d) == upstream[d] # Undefined

\* GET /crm/v3/objects/deals: every live deal with its modification marker.
Listing ==
  LET ids == SortedSeq({d \in Deals : Live(d)})
  IN [k \in 1..Len(ids) |-> [id |-> ids[k], hs_lastmodifieddate |-> upstream[ids[k]]]]

\* ---------------------------------------------------------------- locals
Pending == [status |-> "pending", id |-> 0, lastModifiedDate |-> Undefined]
NullResult(id) == [status |-> "null", id |-> id, lastModifiedDate |-> Undefined]
OkResult(id, m) == [status |-> "ok", id |-> id, lastModifiedDate |-> m]

NoResp == [kind |-> "none", path |-> "none", data |-> <<>>]

LocInit ==
  [ctx |-> "none",          \* "handler": in the route; "pass": in the background pass
   cachedDeals |-> Null,    \* fetchChangedDeals: cachedDeals
   currentDeals |-> <<>>,   \* fetchChangedDeals: currentDeals
   changedDealIds |-> <<>>, \* fetchChangedDeals: changedDealIds
   deletedDealIds |-> <<>>, \* fetchChangedDeals: deletedDealIds
   updatedDeals |-> <<>>,   \* processBatch: results, by input position
   i |-> 1,                 \* processBatch: first position of the current group
   deals |-> <<>>,          \* fetchAllDeals: deals
   result |-> <<>>,         \* the data handed to setDealsCache
   route |-> "none",        \* which return of fetchChangedDeals produced result
   nFetch |-> 0,            \* log: detail fetches issued by the pass
   fetched |-> {},          \* log: ids a detail fetch was issued for
   outcome |-> "none",      \* log: "completed" | "failed"
   old |-> Null,            \* history: the snapshot visible when the set began
   dirty |-> FALSE,         \* history: another set/clear acted since the set began
   afterWrite |-> FALSE,    \* history: a snapshot had been written at arrival
   preClear |-> FALSE]      \* history: its data was computed before a clear that followed

\* ------------------------------------------------- the meeting cache
\* A timestamp string and the Date it parses to are both given by the instant
\* they denote (new Date(s), toISOString() and the TIMESTAMP column keep it).
\* The properties the meeting-detail call returns: meeting 1 has no time,
\* meeting 2 only hs_timestamp, the others both.
MeetingProps(m) ==
  [hs_meeting_start_time |-> IF m > 2 THEN m ELSE NoTime,
   hs_timestamp |-> IF m = 1 THEN NoTime ELSE IF m = 2 THEN 2 ELSE 1]

\* The text of column meeting_ids: JSON.stringify(ids), NULL (a row written
\* before the column existed, or setMeetingCache's default), other text.
StringifyIds(ids) == [kind |-> "json", ids |-> ids]
NullText == [kind |-> "null", ids |-> <<>>]
InvalidText == [kind |-> "text", ids |-> <<>>]
\* JSON.parse(cached.meetingIds || '[]'): throws on text that is no JSON.
ParseThrows(text) == text.kind = "text"
ParsedIds(text) == IF text.kind = "json" THEN text.ids ELSE <<>>
\* Array.prototype.sort()
Sort(seq) == SortedSeq(Range(seq))

NoRow == [present |-> FALSE, lastMeetingDate |-> NoTime, meetingIds |-> NullText,
          cachedAt |-> 0]
Row(date, text, at) == [present |-> TRUE, lastMeetingDate |-> date,
                        meetingIds |-> text, cachedAt |-> at]

\* Deliberately wrong variant: an entry expires as soon as time has passed.
Expired_AnyAge(age, maxAgeMs) == age > 0

\* Deliberately wrong variant: an entry aged exactly maxAgeMs has expired.
Expired_AtMaxAge(age, maxAgeMs) == age >= maxAgeMs

\* db.js lines 219-220 and 232-234: age > maxAgeMs
Expired(age, maxAgeMs) == age > maxAgeMs

\* db.getMeetingCache(companyId, maxAgeMs)
GetMeetingCache(maxAgeMs) ==
  IF ~cache_meetings.present THEN NoRow
  ELSE IF Expired(now - cache_meetings.cachedAt, maxAgeMs) THEN NoRow
  ELSE cache_meetings

\* Deliberately wrong variant: text that cannot be parsed counts as the empty id set.
CachedIdsMatch_InvalidAsEmpty(cached, currentMeetingIds) ==
  /\ cached.present
  /\ Sort(ParsedIds(cached.meetingIds)) = currentMeetingIds

\* Lines 46-57: the entry exists, its id text parses, and the sorted ids are
\* the current ones; a parse failure is caught and falls through.
CachedIdsMatch(cached, currentMeetingIds) ==
  /\ cached.present
  /\ ~ParseThrows(cached.meetingIds)
  /\ Sort(ParsedIds(cached.meetingIds)) = currentMeetingIds

\* Lines 84-91: the non-null results give hs_meeting_start_time ||
\* hs_timestamp; the empty ones are dropped.
MeetingDates(meetings) ==
  {d \in {IF meetings[k].hs_meeting_start_time # NoTime
          THEN meetings[k].hs_meeting_start_time ELSE meetings[k].hs_timestamp :
            k \in {j \in 1..Len(meetings) : meetings[j].status = "ok"}} : d # NoTime}

\* Lines 93-101: null without a date, else the latest.
LastMeetingDate(meetings) ==
  LET dates == MeetingDates(meetings)
  IN IF dates = {} THEN NoTime
     ELSE CHOOSE d \in dates : \A e \in dates : e <= d

PendingMeeting == [status |-> "pending", id |-> 0,
                   hs_meeting_start_time |-> NoTime, hs_timestamp |-> NoTime]
NullMeeting(id) == [status |-> "null", id |-> id,
                    hs_meeting_start_time |-> NoTime, hs_timestamp |-> NoTime]
OkMeeting(id) == [status |-> "ok", id |-> id,
                  hs_meeting_start_time |-> MeetingProps(id).hs_meeting_start_time,
                  hs_timestamp |-> MeetingProps(id).hs_timestamp]

MlocInit ==
  [currentMeetingIds |-> <<>>,  \* getLastMeetingDate: currentMeetingIds
   meetings |-> <<>>,           \* processBatch: results, by input position
   i |-> 1,                     \* processBatch: first position of the current group
   lastMeetingDate |-> NoTime,  \* the date handed to setMeetingCache
   ret |-> NoTime,              \* the value returned
   outcome |-> "none",          \* log: "hit" | "stored" | "failed"
   nFetch |-> 0,                \* log: meeting-detail fetches issued
   cycle |-> FALSE,             \* log: the call started fetching meeting details
   version |-> 0,               \* log: the association's version it listed
   sawInvalid |-> FALSE,        \* log: the cached id text could not be parsed
   changedByOne |-> FALSE,      \* log: the cached id set differed by one id
   age |-> 0]                   \* log: the age of the entry when it was read

\* No getLastMeetingDate runs.
MeetOff ==
  /\ cache_meetings = NoRow
  /\ assoc = {}
  /\ assocVersion = 0
  /\ now = 0
  /\ mpc = [c \in Calls |-> "off"]
  /\ mloc = [c \in Calls |-> MlocInit]

\* No processBatch runs.
BatchOff ==
  /\ items = <<>>
  /\ batchSize = 1
  /\ bpc = "off"
  /\ iBatch = 1
  /\ batch = <<>>
  /\ settleOrder = <<>>
  /\ results = <<>>
  /\ blog = [delays |-> 0, started |-> {}, returned |-> <<>>]

\* No group of deals is being processed.
GroupOff ==
  /\ gmode = "off"
  /\ gdeal = <<>>
  /\ gpc = <<>>
  /\ apiCalls = <<>>

\* No cache call is made on the pair of backings.
KvOff ==
  /\ kvMem = <<>>
  /\ kvDb = <<>>
  /\ kvNow = 0
  /\ kvLog = <<>>
  /\ kvWritten = <<>>
  /\ kvOps = 0

\* No generateNextStepForDeal call is made.
SugOff ==
  /\ hub = <<>>
  /\ engagements = <<>>
  /\ company_engagements = <<>>
  /\ nextSteps = <<>>
  /\ aiCount = 0
  /\ sugLog = <<>>
  /\ sugHist = <<>>
  /\ sugCalls = 0

\* No stage duration is computed.
StageOff ==
  /\ stageHistory = <<>>
  /\ dealstage = 0
  /\ stNow = 0
  /\ stEntry = <<>>
  /\ stLog = <<>>

\* No clearAllCaches scenario is running.
ClrOff ==
  /\ clrMem = <<>>
  /\ clrDb = <<>>
  /\ clrLog = <<>>

\* No query of the pool rejects.
FailOff == failLog = <<>>

\* refreshDealsInBackground is not called.
RefreshOff ==
  /\ isRefreshing = FALSE
  /\ rpc = <<>>
  /\ freshData = <<>>

AuxOff == ClrOff /\ FailOff /\ RefreshOff

ExtOff == GroupOff /\ KvOff /\ SugOff /\ StageOff /\ AuxOff

DealsInit ==
  /\ USE_DATABASE \in BOOLEAN
  /\ memoryStore = [deals |-> Null]
  /\ cache_deals = <<>>
  /\ upstream = [d \in Deals |-> IF d <= InitialDeals THEN 1 ELSE Undefined]
  /\ nextId = InitialDeals + 1
  /\ upVersion = 0
  /\ pc = [r \in Req |-> "new"]
  /\ kind = [r \in Req |-> "none"]
  /\ loc = [r \in Req |-> LocInit]
  /\ resp = [r \in Req |-> NoResp]
  /\ everWritten = FALSE
  /\ lastWrite = Null

Init == DealsInit /\ MeetOff /\ BatchOff /\ ExtOff


\* ------------------------------------------------- fetchChangedDeals: diff
\* new Map(cachedDeals.data.map(deal => [deal.id, deal.lastModifiedDate])):
\* has(id), and get(id) (the last entry of that id; undefined when absent).
CachedHas(data, id) == \E k \in 1..Len(data) : data[k].id = id
CachedGet(data, id) ==
  IF CachedHas(data, id)
  THEN data[CHOOSE k \in 1..Len(data) :
              /\ data[k].id = id
              /\ \A k2 \in 1..Len(data) : data[k2].id = id => k2 <= k].lastModifiedDate
  ELSE Undefined

\* Deliberately wrong variant: every listed deal counts as changed.
IsChanged_Always(data, deal) == TRUE

\* Deliberately wrong variant: a deal the cache does not hold is not reported as changed.
IsChanged_KnownOnly(data, deal) ==
  /\ CachedHas(data, deal.id)
  /\ deal.hs_lastmodifieddate # CachedGet(data, deal.id)

\* The filter of lines 371-375: !cachedModified || dealModified !== cachedModified
IsChanged(data, deal) ==
  LET cachedModified == CachedGet(data, deal.id)
  IN \/ cachedModified = Undefined
     \/ deal.hs_lastmodifieddate # cachedModified

ChangedDealIds(data, currentDeals) ==
  LET Test(deal) == IsChanged(data, deal)
  IN IdsOf(SelectSeq(currentDeals, Test))

\* Lines 378-381: cached ids that the listing no longer holds.
DeletedDealIds(data, currentDeals) ==
  LET currentDealIds == Ids(currentDeals)
      Test(deal) == deal.id \notin currentDealIds
  IN IdsOf(SelectSeq(data, Test))

\* ------------------------------------------------ fetchChangedDeals: merge
\* updatedDealsMap.get(id): the last non-null result of that id.
UpdatedHas(updated, id) ==
  \E k \in 1..Len(updated) : updated[k].status = "ok" /\ updated[k].id = id
UpdatedGet(updated, id) ==
  LET k == CHOOSE k \in 1..Len(updated) :
             /\ updated[k].status = "ok" /\ updated[k].id = id
             /\ \A k2 \in 1..Len(updated) :
                  (updated[k2].status = "ok" /\ updated[k2].id = id) => k2 <= k
  IN DetailEntry(updated[k].id, updated[k].lastModifiedDate)

\* Deliberately wrong variant: a cached deal whose detail fetch failed is dropped from the merge.
KeptDeals_DropFailed(data, deleted, updated) ==
  LET deletedSet == Range(deleted)
      Keep(deal) ==
        /\ deal.id \notin deletedSet
        /\ ~\E k \in 1..Len(updated) :
              updated[k].status = "null" /\ updated[k].id = deal.id
      kept == SelectSeq(data, Keep)
  IN [k \in 1..Len(kept) |->
        IF UpdatedHas(updated, kept[k].id) THEN UpdatedGet(updated, kept[k].id)
        ELSE kept[k]]

\* Deliberately wrong variant: a cached deal whose detail fetch failed is stamped with the
\* deal's current marker.
KeptDeals_FailedStamped(data, deleted, updated) ==
  LET deletedSet == Range(deleted)
      Keep(deal) == deal.id \notin deletedSet
      kept == SelectSeq(data, Keep)
      Failed(id) == \E k \in 1..Len(updated) : updated[k].status = "null" /\ updated[k].id = id
  IN [k \in 1..Len(kept) |->
        IF UpdatedHas(updated, kept[k].id) THEN UpdatedGet(updated, kept[k].id)
        ELSE IF Failed(kept[k].id) THEN DetailEntry(kept[k].id, upstream[kept[k].id])
        ELSE kept[k]]

\* Lines 476-478: drop the deleted ids, replace the updated entries.
KeptDeals(data, deleted, updated) ==
  LET deletedSet == Range(deleted)
      Keep(deal) == deal.id \notin deletedSet
      kept == SelectSeq(data, Keep)
  IN [k \in 1..Len(kept) |->
        IF UpdatedHas(updated, kept[k].id) THEN UpdatedGet(updated, kept[k].id)
        ELSE kept[k]]

\* Deliberately wrong variant: the fetched deals the cache did not hold are not pushed.
NewDeals_NotPushed(data, updated) == <<>>

\* Deliberately wrong variant: every fetched deal is pushed, cached or not.
NewDeals_PushAll(data, updated) ==
  LET IsOk(u) == u.status = "ok"
      news == SelectSeq(updated, IsOk)
  IN [k \in 1..Len(news) |-> DetailEntry(news[k].id, news[k].lastModifiedDate)]

\* Lines 481-485: push the fetched deals the cache did not hold.
NewDeals(data, updated) ==
  LET IsNew(u) == u.status = "ok" /\ ~CachedHas(data, u.id)
      news == SelectSeq(updated, IsNew)
  IN [k \in 1..Len(news) |-> DetailEntry(news[k].id, news[k].lastModifiedDate)]

MergedDeals(data, deleted, updated) ==
  KeptDeals(data, deleted, updated) \o NewDeals(data, updated)

\* ------------------------------------------------------ history helpers
\* A set or clear step of r disturbs every other replace that is under way.
MarkDirty(l, r) ==
  [q \in Req |-> IF q # r /\ pc[q] = "set_insert"
                 THEN [l[q] EXCEPT !.dirty = TRUE] ELSE l[q]]

\* What a finished request keeps: its logs.
Finished(l, outcome) ==
  [LocInit EXCEPT !.nFetch = l.nFetch, !.route = l.route,
                  !.afterWrite = l.afterWrite, !.preClear = l.preClear,
                  !.outcome = outcome]

\* A clear overtakes every pass that has already read the cache and the
\* listing it computes its data from.
MarkPreClear(l) ==
  [q \in Req |-> IF pc[q] \in {"fc_fetch", "set", "set_insert"}
                 THEN [l[q] EXCEPT !.preClear = TRUE] ELSE l[q]]

DataResp(path, data) == [kind |-> "data", path |-> path, data |-> data]
ErrorResp(path) == [kind |-> "error", path |-> path, data |-> <<>>]
OkResp == [kind |-> "ok", path |-> "none", data |-> <<>>]
BadRequestResp == [kind |-> "badrequest", path |-> "none", data |-> <<>>]

\* ------------------------------------------------------- GET /api/deals
\* Lines 492-509: read the cache; without one, bootstrap; with one, answer
\* with it and start fetchChangedDeals without awaiting it.
GetDeals(r) ==
  /\ pc[r] = "new"
  /\ \A q \in Req : q < r => pc[q] # "new"
  /\ kind' = [kind EXCEPT ![r] = "get"]
  /\ LET cachedDeals == GetDealsCache IN
       IF ~cachedDeals.present
       THEN /\ pc' = [pc EXCEPT ![r] = "fa_list"]
            /\ loc' = [loc EXCEPT ![r].ctx = "handler", ![r].afterWrite = everWritten]
            /\ resp' = resp
       ELSE /\ pc' = [pc EXCEPT ![r] = "fc_list"]
            /\ loc' = [loc EXCEPT ![r].ctx = "pass", ![r].afterWrite = everWritten]
            /\ resp' = [resp EXCEPT ![r] = DataResp("cache", cachedDeals.data)]
  /\ UNCHANGED <<meetVars, batchVars, extVars, USE_DATABASE, memoryStore, cache_deals, upstream, nextId,
                 upVersion, everWritten, lastWrite>>

\* Deliberately wrong variant: a rejected listing answers with an error whoever called.
FetchAllDeals_AlwaysAnswers(r) ==
  /\ pc[r] = "fa_list"
  /\ \E ok \in BOOLEAN :
       IF ok
       THEN /\ pc' = [pc EXCEPT ![r] = "set"]
            /\ loc' = [loc EXCEPT ![r].deals = Listing,
                                  ![r].result = [k \in 1..Len(Listing) |->
                                                   BootstrapEntry(Listing[k].id)],
                                  ![r].route = "full"]
            /\ resp' = resp
       ELSE /\ pc' = [pc EXCEPT ![r] = "done"]
            /\ loc' = [loc EXCEPT ![r] = Finished(loc[r], IF loc[r].ctx = "pass"
                                                         THEN "failed" ELSE "none")]
            /\ resp' = [resp EXCEPT ![r] = ErrorResp("bootstrap")]
  /\ UNCHANGED <<meetVars, batchVars, extVars, USE_DATABASE, memoryStore, cache_deals, upstream, nextId,
                 upVersion, kind, everWritten, lastWrite>>

\* fetchAllDeals, lines 196-322: the listing call may reject; every deal of
\* the listing gives one entry (each per-deal call is caught on its own).
FetchAllDeals(r) ==
  /\ pc[r] = "fa_list"
  /\ \E ok \in BOOLEAN :
       IF ok
       THEN /\ pc' = [pc EXCEPT ![r] = "set"]
            /\ loc' = [loc EXCEPT ![r].deals = Listing,
                                  ![r].result = [k \in 1..Len(Listing) |->
                                                   BootstrapEntry(Listing[k].id)],
                                  ![r].route = "full"]
            /\ resp' = resp
       ELSE /\ pc' = [pc EXCEPT ![r] = "done"]
            /\ loc' = [loc EXCEPT ![r] = Finished(loc[r], IF loc[r].ctx = "pass"
                                                         THEN "failed" ELSE "none")]
            /\ resp' = IF loc[r].ctx = "handler"
                       THEN [resp EXCEPT ![r] = ErrorResp("bootstrap")]
                       ELSE resp
  /\ UNCHANGED <<meetVars, batchVars, extVars, USE_DATABASE, memoryStore, cache_deals, upstream, nextId,
                 upVersion, kind, everWritten, lastWrite>>

\* Deliberately wrong variant: a rejected listing of the background pass is sent to the caller.
FetchChangedDealsList_Surfaced(r) ==
  /\ pc[r] = "fc_list"
  /\ \E ok \in BOOLEAN :
       IF ok
       THEN /\ pc' = [pc EXCEPT ![r] = "fc_read"]
            /\ loc' = [loc EXCEPT ![r].currentDeals = Listing]
            /\ resp' = resp
       ELSE /\ pc' = [pc EXCEPT ![r] = "done"]
            /\ loc' = [loc EXCEPT ![r] = Finished(loc[r], "failed")]
            /\ resp' = [resp EXCEPT ![r] = ErrorResp("cache")]
  /\ UNCHANGED <<meetVars, batchVars, extVars, USE_DATABASE, memoryStore, cache_deals, upstream, nextId,
                 upVersion, kind, everWritten, lastWrite>>

\* fetchChangedDeals, lines 350-357: the cheap listing; a rejection fails the
\* pass (caught at line 514).
FetchChangedDealsList(r) ==
  /\ pc[r] = "fc_list"
  /\ \E ok \in BOOLEAN :
       IF ok
       THEN /\ pc' = [pc EXCEPT ![r] = "fc_read"]
            /\ loc' = [loc EXCEPT ![r].currentDeals = Listing]
       ELSE /\ pc' = [pc EXCEPT ![r] = "done"]
            /\ loc' = [loc EXCEPT ![r] = Finished(loc[r], "failed")]
  /\ UNCHANGED <<meetVars, batchVars, extVars, USE_DATABASE, memoryStore, cache_deals, upstream, nextId,
                 upVersion, kind, resp, everWritten, lastWrite>>

\* fetchChangedDeals, lines 358-392: read the cache; none: fetchAllDeals;
\* nothing changed or deleted: the cached data; else fetch the changed ids
\* (processBatch over no item returns at once, and the merge follows).
FetchChangedDealsDiff(r) ==
  /\ pc[r] = "fc_read"
  /\ LET cachedDeals == GetDealsCache
         changed == ChangedDealIds(cachedDeals.data, loc[r].currentDeals)
         deleted == DeletedDealIds(cachedDeals.data, loc[r].currentDeals)
     IN
       IF ~cachedDeals.present
       THEN /\ pc' = [pc EXCEPT ![r] = "fa_list"]
            /\ loc' = loc
       ELSE IF Len(changed) = 0 /\ Len(deleted) = 0
       THEN /\ pc' = [pc EXCEPT ![r] = "set"]
            /\ loc' = [loc EXCEPT ![r].cachedDeals = cachedDeals,
                                  ![r].result = cachedDeals.data,
                                  ![r].route = "nochange"]
       ELSE IF Len(changed) = 0
       THEN /\ pc' = [pc EXCEPT ![r] = "set"]
            /\ loc' = [loc EXCEPT ![r].cachedDeals = cachedDeals,
                                  ![r].deletedDealIds = deleted,
                                  ![r].result = MergedDeals(cachedDeals.data, deleted, <<>>),
                                  ![r].route = "diff"]
       ELSE /\ pc' = [pc EXCEPT ![r] = "fc_fetch"]
            /\ loc' = [loc EXCEPT ![r].cachedDeals = cachedDeals,
                                  ![r].changedDealIds = changed,
                                  ![r].deletedDealIds = deleted,
                                  ![r].updatedDeals = [k \in 1..Len(changed) |-> Pending],
                                  ![r].i = 1]
  /\ UNCHANGED <<meetVars, batchVars, extVars, USE_DATABASE, memoryStore, cache_deals, upstream, nextId,
                 upVersion, kind, resp, everWritten, lastWrite>>

\* processBatch, lines 126-139, over the per-deal function of lines 392-470:
\* the items of the current group settle in any order; a rejected call of an
\* item gives null.  When the group has settled the next one starts (after
\* the delay), and after the last one the merge of lines 472-488 runs.
GroupOf(l) == {j \in 1..Len(l.changedDealIds) : l.i <= j /\ j < l.i + BATCH_SIZE}

FetchDeal(r, j) ==
  /\ pc[r] = "fc_fetch"
  /\ j \in GroupOf(loc[r])
  /\ loc[r].updatedDeals[j].status = "pending"
  /\ \E ok \in BOOLEAN :
       LET l == loc[r]
           dealId == l.changedDealIds[j]
           res == IF ok /\ Live(dealId) THEN OkResult(dealId, upstream[dealId])
                  ELSE NullResult(dealId)
           updated == [l.updatedDeals EXCEPT ![j] = res]
           settled == \A k \in GroupOf(l) : updated[k].status # "pending"
           more == l.i + BATCH_SIZE <= Len(l.changedDealIds)
           l1 == [l EXCEPT !.updatedDeals = updated,
                           !.nFetch = @ + 1,
                           !.fetched = @ \cup {dealId}]
       IN IF ~settled
          THEN /\ pc' = pc
               /\ loc' = [loc EXCEPT ![r] = l1]
          ELSE IF more
          THEN /\ pc' = pc
               /\ loc' = [loc EXCEPT ![r] = [l1 EXCEPT !.i = @ + BATCH_SIZE]]
          ELSE /\ pc' = [pc EXCEPT ![r] = "set"]
               /\ loc' = [loc EXCEPT ![r] =
                            [l1 EXCEPT !.result = MergedDeals(l.cachedDeals.data,
                                                              l.deletedDealIds, updated),
                                       !.route = "diff"]]
  /\ UNCHANGED <<meetVars, batchVars, extVars, USE_DATABASE, memoryStore, cache_deals, upstream, nextId,
                 upVersion, kind, resp, everWritten, lastWrite>>

\* ------------------------------------------------------ db.setDealsCache
\* What follows the awaited setDealsCache: the bootstrap answers with the
\* fresh data (line 501); the pass logs its completion (line 512).
AfterSet(r) ==
  /\ pc' = [pc EXCEPT ![r] = "done"]
  /\ resp' = IF loc[r].ctx = "handler"
             THEN [resp EXCEPT ![r] = DataResp("bootstrap", loc[r].result)]
             ELSE resp
  /\ everWritten' = TRUE
  /\ lastWrite' = Snapshot(loc[r].result)

\* Lines 153-156: the slot is assigned.
SetDealsCacheMemory(r) ==
  /\ pc[r] = "set"
  /\ ~USE_DATABASE
  /\ memoryStore' = [memoryStore EXCEPT !.deals = Snapshot(loc[r].result)]
  /\ loc' = [MarkDirty(loc, r) EXCEPT ![r] =
               Finished(loc[r], IF loc[r].ctx = "pass" THEN "completed" ELSE "none")]
  /\ AfterSet(r)
  /\ UNCHANGED <<meetVars, batchVars, extVars, USE_DATABASE, cache_deals, upstream, nextId, upVersion, kind>>

\* Line 158: DELETE FROM cache_deals.
SetDealsCacheDelete(r) ==
  /\ pc[r] = "set"
  /\ USE_DATABASE
  /\ cache_deals' = <<>>
  /\ pc' = [pc EXCEPT ![r] = "set_insert"]
  /\ loc' = [MarkDirty(loc, r) EXCEPT ![r].old = GetDealsCache, ![r].dirty = FALSE]
  /\ UNCHANGED <<meetVars, batchVars, extVars, USE_DATABASE, memoryStore, upstream, nextId, upVersion, kind,
                 resp, everWritten, lastWrite>>

\* Lines 159-162: INSERT INTO cache_deals (data, last_fetched).
SetDealsCacheInsert(r) ==
  /\ pc[r] = "set_insert"
  /\ cache_deals' = Append(cache_deals, [data |-> Stringify(loc[r].result)])
  /\ loc' = [MarkDirty(loc, r) EXCEPT ![r] =
               Finished(loc[r], IF loc[r].ctx = "pass" THEN "completed" ELSE "none")]
  /\ AfterSet(r)
  /\ UNCHANGED <<meetVars, batchVars, extVars, USE_DATABASE, memoryStore, upstream, nextId, upVersion, kind>>

\* ---------------------------------------------------- db.clearDealsCache
\* Lines 165-172.
ClearDealsCache(r) ==
  /\ memoryStore' = IF USE_DATABASE THEN memoryStore
                    ELSE [memoryStore EXCEPT !.deals = Null]
  /\ cache_deals' = IF USE_DATABASE THEN <<>> ELSE cache_deals
  /\ lastWrite' = Null
  /\ loc' = MarkPreClear(MarkDirty(loc, r))

\* POST /api/clear-cache, lines 647-656.
ClearCache(r) ==
  /\ pc[r] = "new"
  /\ \A q \in Req : q < r => pc[q] # "new"
  /\ kind' = [kind EXCEPT ![r] = "clear"]
  /\ ClearDealsCache(r)
  /\ pc' = [pc EXCEPT ![r] = "done"]
  /\ resp' = [resp EXCEPT ![r] = OkResp]
  /\ UNCHANGED <<meetVars, batchVars, extVars, USE_DATABASE, upstream, nextId, upVersion, everWritten>>

\* PATCH /api/deals/:dealId/stage, lines 551-564: a missing stageId is a 400;
\* a rejected upstream call is a 500; an accepted one may move the deal's
\* modification marker.
PatchStage(r) ==
  /\ pc[r] = "new"
  /\ \A q \in Req : q < r => pc[q] # "new"
  /\ kind' = [kind EXCEPT ![r] = "patch"]
  /\ \E dealId \in Deals, stageId \in BOOLEAN, ok \in BOOLEAN, moved \in BOOLEAN :
       IF ~stageId
       THEN /\ pc' = [pc EXCEPT ![r] = "done"]
            /\ resp' = [resp EXCEPT ![r] = BadRequestResp]
            /\ UNCHANGED <<upstream, upVersion>>
       ELSE IF ~ok \/ ~Live(dealId)
       THEN /\ pc' = [pc EXCEPT ![r] = "done"]
            /\ resp' = [resp EXCEPT ![r] = ErrorResp("none")]
            /\ UNCHANGED <<upstream, upVersion>>
       ELSE IF ~moved
       THEN /\ pc' = [pc EXCEPT ![r] = "patch_clear"]
            /\ UNCHANGED <<resp, upstream, upVersion>>
       ELSE /\ upstream[dealId] < MaxMarker
            /\ upVersion < MaxUpstreamOps
            /\ pc' = [pc EXCEPT ![r] = "patch_clear"]
            /\ upstream' = [upstream EXCEPT ![dealId] = @ + 1]
            /\ upVersion' = upVersion + 1
            /\ resp' = resp
  /\ UNCHANGED <<meetVars, batchVars, extVars, USE_DATABASE, memoryStore, cache_deals, nextId, loc,
                 everWritten, lastWrite>>

\* Lines 566-570: the cache is invalidated, then the answer is sent.
PatchClear(r) ==
  /\ pc[r] = "patch_clear"
  /\ ClearDealsCache(r)
  /\ pc' = [pc EXCEPT ![r] = "done"]
  /\ resp' = [resp EXCEPT ![r] = OkResp]
  /\ UNCHANGED <<meetVars, batchVars, extVars, USE_DATABASE, upstream, nextId, upVersion, kind, everWritten>>

\* -------------------------------------------------- the upstream changes
UpstreamCreate ==
  /\ nextId <= MaxDeals
  /\ upVersion < MaxUpstreamOps
  /\ upstream' = [upstream EXCEPT ![nextId] = 1]
  /\ nextId' = nextId + 1
  /\ upVersion' = upVersion + 1
  /\ UNCHANGED <<meetVars, batchVars, extVars, USE_DATABASE, memoryStore, cache_deals, pc, kind, loc, resp,
                 everWritten, lastWrite>>

UpstreamModify(d) ==
  /\ Live(d)
  /\ upstream[d] < MaxMarker
  /\ upVersion < MaxUpstreamOps
  /\ upstream' = [upstream EXCEPT ![d] = @ + 1]
  /\ upVersion' = upVersion + 1
  /\ UNCHANGED <<meetVars, batchVars, extVars, USE_DATABASE, memoryStore, cache_deals, nextId, pc, kind, loc,
                 resp, everWritten, lastWrite>>

UpstreamDelete(d) ==
  /\ Live(d)
  /\ upVersion < MaxUpstreamOps
  /\ upstream' = [upstream EXCEPT ![d] = Undefined]
  /\ upVersion' = upVersion + 1
  /\ UNCHANGED <<meetVars, batchVars, extVars, USE_DATABASE, memoryStore, cache_deals, nextId, pc, kind, loc,
                 resp, everWritten, lastWrite>>

Next ==
  \/ \E r \in Req : GetDeals(r)
  \/ \E r \in Req : FetchAllDeals(r)
  \/ \E r \in Req : FetchChangedDealsList(r)
  \/ \E r \in Req : FetchChangedDealsDiff(r)
  \/ \E r \in Req : \E j \in 1..MaxDeals : FetchDeal(r, j)
  \/ \E r \in Req : SetDealsCacheMemory(r)
  \/ \E r \in Req : SetDealsCacheDelete(r)
  \/ \E r \in Req : SetDealsCacheInsert(r)
  \/ \E r \in Req : ClearCache(r)
  \/ \E r \in Req : PatchStage(r)
  \/ \E r \in Req : PatchClear(r)
  \/ UpstreamCreate
  \/ \E d \in Deals : UpstreamModify(d)
  \/ \E d \in Deals : UpstreamDelete(d)

Spec == Init /\ [][Next]_vars

\* The server with a snapshot already in the store: the state a first
\* GET /api/deals leaves once it has bootstrapped from the start-up listing
\* and returned (that request is not counted among Req).
WarmData == [k \in 1..InitialDeals |-> BootstrapEntry(k)]

InitWarm ==
  /\ USE_DATABASE \in BOOLEAN
  /\ memoryStore = [deals |-> IF USE_DATABASE THEN Null ELSE Snapshot(WarmData)]
  /\ cache_deals = IF USE_DATABASE THEN <<[data |-> Stringify(WarmData)]>> ELSE <<>>
  /\ upstream = [d \in Deals |-> IF d <= InitialDeals THEN 1 ELSE Undefined]
  /\ nextId = InitialDeals + 1
  /\ upVersion = 0
  /\ pc = [r \in Req |-> "new"]
  /\ kind = [r \in Req |-> "none"]
  /\ loc = [r \in Req |-> LocInit]
  /\ resp = [r \in Req |-> NoResp]
  /\ everWritten = TRUE
  /\ lastWrite = Snapshot(WarmData)
  /\ MeetOff
  /\ BatchOff
  /\ ExtOff

\* The requests alone: nobody else changes the upstream deals meanwhile.
NextWarm ==
  \/ \E r \in Req : GetDeals(r)
  \/ \E r \in Req : FetchAllDeals(r)
  \/ \E r \in Req : FetchChangedDealsList(r)
  \/ \E r \in Req : FetchChangedDealsDiff(r)
  \/ \E r \in Req : \E j \in 1..MaxDeals : FetchDeal(r, j)
  \/ \E r \in Req : SetDealsCacheMemory(r)
  \/ \E r \in Req : SetDealsCacheDelete(r)
  \/ \E r \in Req : SetDealsCacheInsert(r)
  \/ \E r \in Req : ClearCache(r)
  \/ \E r \in Req : PatchStage(r)
  \/ \E r \in Req : PatchClear(r)

SpecWarm == InitWarm /\ [][NextWarm]_vars


\* ======================================================================
\* getLastMeetingDate(companyId), server.js lines 35-107
\* ======================================================================
InFlight == {c \in Calls : mpc[c] \notin {"new", "done", "off"}}

\* Log: the ids that are in one of two id sequences only.
IdsApart(a, b) == (Range(a) \ Range(b)) \cup (Range(b) \ Range(a))
ReadLog(l, cached) ==
  [l EXCEPT !.age = IF cache_meetings.present THEN now - cache_meetings.cachedAt ELSE 0,
            !.sawInvalid = cached.present /\ ParseThrows(cached.meetingIds),
            !.changedByOne =
               /\ cached.present
               /\ cached.meetingIds.kind = "json"
               /\ Cardinality(IdsApart(cached.meetingIds.ids, l.currentMeetingIds)) = 1]

\* Lines 38-40: the association listing; its rejection is caught at line 103.
\* The deals of one group of a pass call it together: at most BATCH_SIZE
\* calls are in flight.
GetLastMeetingDate(c) ==
  /\ mpc[c] = "new"
  /\ \A q \in Calls : q < c => mpc[q] # "new"
  /\ Cardinality(InFlight) < BATCH_SIZE
  /\ \E ok \in BOOLEAN :
       IF ok
       THEN /\ mpc' = [mpc EXCEPT ![c] = "m_read"]
            /\ mloc' = [mloc EXCEPT ![c].currentMeetingIds = SortedSeq(assoc),
                                    ![c].version = assocVersion]
       ELSE /\ mpc' = [mpc EXCEPT ![c] = "done"]
            /\ mloc' = [mloc EXCEPT ![c].outcome = "failed"]
  /\ UNCHANGED <<dealVars, batchVars, extVars, cache_meetings, assoc, assocVersion, now>>

\* Lines 43-66: the cache read; a hit returns the cached date; no meeting
\* goes to setMeetingCache(companyId, null, '[]'); otherwise processBatch
\* starts over the current ids.
MeetingCacheRead(c) ==
  /\ mpc[c] = "m_read"
  /\ LET cached == GetMeetingCache(Infinity)
         ids == mloc[c].currentMeetingIds
         l == ReadLog(mloc[c], cached)
     IN IF CachedIdsMatch(cached, ids)
        THEN /\ mpc' = [mpc EXCEPT ![c] = "done"]
             /\ mloc' = [mloc EXCEPT ![c] = [l EXCEPT !.ret = cached.lastMeetingDate,
                                                      !.outcome = "hit"]]
        ELSE IF Len(ids) = 0
        THEN /\ mpc' = [mpc EXCEPT ![c] = "m_set"]
             /\ mloc' = [mloc EXCEPT ![c] = [l EXCEPT !.lastMeetingDate = NoTime]]
        ELSE /\ mpc' = [mpc EXCEPT ![c] = "m_fetch"]
             /\ mloc' = [mloc EXCEPT ![c] =
                           [l EXCEPT !.meetings = [k \in 1..Len(ids) |-> PendingMeeting],
                                     !.i = 1,
                                     !.cycle = TRUE]]
  /\ UNCHANGED <<dealVars, batchVars, extVars, cache_meetings, assoc, assocVersion, now>>

\* processBatch (lines 126-139) over the meeting function of lines 69-79: a
\* rejected detail call gives null.  The calls of a group touch nothing
\* shared, so the group settles in one step.  After the last group lines
\* 84-98 derive the date.
MeetingGroupOf(l) ==
  {j \in 1..Len(l.currentMeetingIds) : l.i <= j /\ j < l.i + MeetingBatchSize}

FetchMeetings(c) ==
  /\ mpc[c] = "m_fetch"
  /\ \E oks \in SUBSET MeetingGroupOf(mloc[c]) :
       LET l == mloc[c]
           group == MeetingGroupOf(l)
           meetings == [k \in 1..Len(l.meetings) |->
                          IF k \notin group THEN l.meetings[k]
                          ELSE IF k \in oks THEN OkMeeting(l.currentMeetingIds[k])
                          ELSE NullMeeting(l.currentMeetingIds[k])]
           more == l.i + MeetingBatchSize <= Len(l.currentMeetingIds)
           l1 == [l EXCEPT !.meetings = meetings, !.nFetch = @ + Cardinality(group)]
       IN IF more
          THEN /\ mpc' = mpc
               /\ mloc' = [mloc EXCEPT ![c] = [l1 EXCEPT !.i = @ + MeetingBatchSize]]
          ELSE /\ mpc' = [mpc EXCEPT ![c] = "m_set"]
               /\ mloc' = [mloc EXCEPT ![c] =
                             [l1 EXCEPT !.lastMeetingDate = LastMeetingDate(meetings)]]
  /\ UNCHANGED <<dealVars, batchVars, extVars, cache_meetings, assoc, assocVersion, now>>

\* db.setMeetingCache (db.js lines 242-255) as called at lines 61, 94 and
\* 100: the entry is replaced, and the date is returned.
SetMeetingCache(c) ==
  /\ mpc[c] = "m_set"
  /\ cache_meetings' = Row(mloc[c].lastMeetingDate,
                           StringifyIds(mloc[c].currentMeetingIds), now)
  /\ mpc' = [mpc EXCEPT ![c] = "done"]
  /\ mloc' = [mloc EXCEPT ![c].ret = mloc[c].lastMeetingDate,
                          ![c].outcome = "stored",
                          ![c].meetings = <<>>,
                          ![c].i = 1,
                          ![c].lastMeetingDate = NoTime]
  /\ UNCHANGED <<dealVars, batchVars, extVars, assoc, assocVersion, now>>

\* A meeting is associated with the company, or an association is removed.
AssocAdd(m) ==
  /\ m \notin assoc
  /\ assocVersion < MaxAssocOps
  /\ assoc' = assoc \cup {m}
  /\ assocVersion' = assocVersion + 1
  /\ UNCHANGED <<dealVars, batchVars, extVars, cache_meetings, now, mpc, mloc>>

AssocRemove(m) ==
  /\ m \in assoc
  /\ assocVersion < MaxAssocOps
  /\ assoc' = assoc \ {m}
  /\ assocVersion' = assocVersion + 1
  /\ UNCHANGED <<dealVars, batchVars, extVars, cache_meetings, now, mpc, mloc>>

\* Time passes.
Tick ==
  /\ now < MaxClock
  /\ now' = now + 1
  /\ UNCHANGED <<dealVars, batchVars, extVars, cache_meetings, assoc, assocVersion, mpc, mloc>>

\* The entry the company can have at start-up: none; with the durable
\* backing also a row whose meeting_ids is NULL (written by
\* setMeetingCache(companyId, date) before the column existed) or holds text
\* that is no JSON.
StartRows ==
  IF USE_DATABASE
  THEN {NoRow} \cup {Row(d, NullText, 0) : d \in {NoTime, 2}}
               \cup {Row(2, InvalidText, 0)}
  ELSE {NoRow}

InitMeet ==
  /\ DealsInit
  /\ BatchOff
  /\ ExtOff
  /\ cache_meetings \in StartRows
  /\ assoc \in SUBSET Meetings
  /\ assocVersion = 0
  /\ now = 0
  /\ mpc = [c \in Calls |-> "new"]
  /\ mloc = [c \in Calls |-> MlocInit]

NextMeet ==
  \/ \E c \in Calls : GetLastMeetingDate(c)
  \/ \E c \in Calls : MeetingCacheRead(c)
  \/ \E c \in Calls : FetchMeetings(c)
  \/ \E c \in Calls : SetMeetingCache(c)
  \/ \E m \in Meetings : AssocAdd(m)
  \/ \E m \in Meetings : AssocRemove(m)
  \/ Tick

SpecMeet == InitMeet /\ [][NextMeet]_vars


\* ======================================================================
\* processBatch(items, processFn, batchSize, delayMs), server.js lines 126-139
\* ======================================================================
ItemValues == 1..MaxItemValue

\* What an item function hands back, and a promise that has not settled.
OkValue(x) == [status |-> "ok", of |-> x]
NullValue == [status |-> "null", of |-> 0]
Rejected == [status |-> "rejected", of |-> 0]
NoValue == [status |-> "pending", of |-> 0]

\* Deliberately wrong variant: the item function lets the failure of its call escape.
ItemResult_Uncaught(x, ok) == IF ok THEN OkValue(x) ELSE Rejected

\* The item functions (lines 69-79, 212-318, 392-470) catch the failure of
\* their upstream calls and return null or the defaults.
ItemResult(x, ok) == IF ok THEN OkValue(x) ELSE NullValue

\* Deliberately wrong variant: the values in the order the promises settled.
PromiseAll_SettleOrder(promises, order) ==
  [k \in 1..Len(promises) |-> promises[order[k]]]

\* Promise.all: the values by the position of their promise.
PromiseAll(promises, order) == [k \in 1..Len(promises) |-> promises[k]]

\* Deliberately wrong variant: the group counts as settled with its first promise.
Settled_First(promises) == \E k \in 1..Len(promises) : promises[k] # NoValue

\* await Promise.all(...) goes on when every promise has settled.
Settled(promises) == \A k \in 1..Len(promises) : promises[k] # NoValue

\* Deliberately wrong variant: a delay follows every group.
MoreItems_Always(first, size, n) == TRUE

\* Line 134, i + batchSize < items.length, with positions counted from 1.
MoreItems(first, size, n) == first + size <= n

\* Line 129: items.slice(i, i + batchSize), as the positions it takes.
Slice(first, size, n) == {k \in 1..n : first <= k /\ k < first + size}

\* Lines 128-130: the next group; batch.map(processFn) starts every call.
StartGroup ==
  /\ bpc = "loop"
  /\ iBatch <= Len(items)
  /\ LET group == Slice(iBatch, batchSize, Len(items)) IN
       /\ batch' = [k \in 1..Cardinality(group) |-> NoValue]
       /\ blog' = [blog EXCEPT !.started = @ \cup group]
  /\ settleOrder' = <<>>
  /\ bpc' = "await"
  /\ UNCHANGED <<dealVars, meetVars, extVars, items, batchSize, iBatch, results>>

\* One call of the group settles; the calls settle in any order.
Settle(k) ==
  /\ bpc = "await"
  /\ k \in 1..Len(batch)
  /\ batch[k] = NoValue
  /\ \E ok \in BOOLEAN :
       LET v == ItemResult(items[iBatch + k - 1], ok) IN
         /\ batch' = [batch EXCEPT ![k] = v]
         /\ blog' = [blog EXCEPT !.returned[iBatch + k - 1] = v]
  /\ settleOrder' = Append(settleOrder, k)
  /\ UNCHANGED <<dealVars, meetVars, extVars, items, batchSize, bpc, iBatch, results>>

\* Lines 130-136: Promise.all resolves (or rejects with a rejected call, and
\* processBatch throws); the results are pushed; a delay follows unless the
\* group was the last.
GroupSettled ==
  /\ bpc = "await"
  /\ Settled(batch)
  /\ IF \E k \in 1..Len(batch) : batch[k] = Rejected
     THEN /\ bpc' = "thrown"
          /\ UNCHANGED <<results, blog, iBatch>>
     ELSE /\ results' = results \o PromiseAll(batch, settleOrder)
          /\ IF MoreItems(iBatch, batchSize, Len(items))
             THEN /\ bpc' = "delay"
                  /\ blog' = [blog EXCEPT !.delays = @ + 1]
                  /\ iBatch' = iBatch
             ELSE /\ bpc' = "loop"
                  /\ blog' = blog
                  /\ iBatch' = iBatch + batchSize
  /\ UNCHANGED <<dealVars, meetVars, extVars, items, batchSize, batch, settleOrder>>

\* Line 135: the delay has passed; the loop steps on.
DelayDone ==
  /\ bpc = "delay"
  /\ bpc' = "loop"
  /\ iBatch' = iBatch + batchSize
  /\ UNCHANGED <<dealVars, meetVars, extVars, items, batchSize, batch, settleOrder, results, blog>>

\* Line 138: return results.
ReturnResults ==
  /\ bpc = "loop"
  /\ iBatch > Len(items)
  /\ bpc' = "done"
  /\ UNCHANGED <<dealVars, meetVars, extVars, items, batchSize, iBatch, batch, settleOrder,
                 results, blog>>

\* One call of processBatch over any item list and group size.
InitBatch ==
  /\ DealsInit
  /\ USE_DATABASE = FALSE
  /\ MeetOff
  /\ ExtOff
  /\ items \in UNION {[1..n -> ItemValues] : n \in 0..MaxItems}
  /\ batchSize \in 1..MaxBatchSize
  /\ bpc = "loop"
  /\ iBatch = 1
  /\ batch = <<>>
  /\ settleOrder = <<>>
  /\ results = <<>>
  /\ blog = [delays |-> 0, started |-> {}, returned |-> [k \in 1..Len(items) |-> NoValue]]

NextBatch ==
  \/ StartGroup
  \/ \E k \in 1..MaxBatchSize : Settle(k)
  \/ GroupSettled
  \/ DelayDone
  \/ ReturnResults

SpecBatch == InitBatch /\ [][NextBatch]_vars


\* ======================================================================
\* Properties
\* ======================================================================
SetStage(r) == pc[r] \in {"set", "set_insert"}

\* The entry of id d in a snapshot's data, and in a listing.
EntryOf(data, d) == CHOOSE e \in Range(data) : e.id = d
MarkerOf(listing, d) ==
  (CHOOSE e \in Range(listing) : e.id = d).hs_lastmodifieddate

\* The ids of the listing that are new or whose marker differs from the cached one.
ExpectedChanged(data, listing) ==
  {d \in Ids(listing) :
     \/ d \notin Ids(data)
     \/ EntryOf(data, d).lastModifiedDate # MarkerOf(listing, d)}

\* The ids a detail fetch has been issued for, and the position of an id.
FetchedIds(l) ==
  {l.changedDealIds[k] : k \in {j \in 1..Len(l.updatedDeals) :
                                 l.updatedDeals[j].status # "pending"}}
FailedIds(l) ==
  {l.changedDealIds[k] : k \in {j \in 1..Len(l.updatedDeals) :
                                 l.updatedDeals[j].status = "null"}}
ResultOf(l, d) ==
  l.updatedDeals[CHOOSE k \in 1..Len(l.changedDealIds) : l.changedDealIds[k] = d]

\* C1: while a setDealsCache(new) over an existing snapshot old is under way
\* and nothing else writes, a getDealsCache returns old or new.
C1_ReadIsOldOrNew ==
  \A w \in Req :
    (pc[w] = "set_insert" /\ loc[w].old.present /\ ~loc[w].dirty)
      => GetDealsCache \in {loc[w].old, Snapshot(loc[w].result)}

\* C2: the store never holds more than one snapshot, and when no replace is
\* under way getDealsCache returns what the last completed set or clear left.
C2_SingleSnapshot ==
  /\ StoredSnapshots <= 1
  /\ (\A q \in Req : pc[q] # "set_insert") => GetDealsCache = lastWrite

\* C3: at most one background reconciliation is in flight at any time.
InPass(r) == kind[r] = "get" /\ loc[r].ctx = "pass" /\ pc[r] # "done"
C3_SinglePass == Cardinality({r \in Req : InPass(r)}) <= 1

\* C4: the first GET bootstraps all N upstream deals; a second GET with no
\* upstream change returns the same N deals and its reconciliation issues
\* no detail fetch.
C4_SecondGetQuiet ==
  ( /\ kind[1] = "get" /\ resp[1].kind = "data" /\ resp[1].path = "bootstrap"
    /\ kind[2] = "get" /\ resp[2].path = "cache"
    /\ \A q \in Req : q > 2 => pc[q] = "new"
    /\ upVersion = 0 )
  => /\ Ids(resp[1].data) = {d \in Deals : Live(d)}
     /\ resp[2].data = resp[1].data
     /\ loc[2].nFetch = 0

\* C5: a reconciliation pass fetches detail exactly for the listed ids that
\* are new or whose marker differs from the cached one; when every fetch
\* succeeds the merged data holds exactly the listed ids, the changed and new
\* ones with their fetched entry and the others with their cached entry.
C5_DiffCorrect ==
  \A r \in Req :
    LET l == loc[r]
        cached == l.cachedDeals.data
        expected == ExpectedChanged(cached, l.currentDeals)
    IN /\ pc[r] = "fc_fetch" => FetchedIds(l) \subseteq expected
       /\ (SetStage(r) /\ l.route \in {"diff", "nochange"}) =>
            /\ FetchedIds(l) = expected
            /\ l.nFetch = Cardinality(expected)
            /\ (FailedIds(l) = {}) =>
                 /\ Ids(l.result) = Ids(l.currentDeals)
                 /\ Len(l.result) = Cardinality(Ids(l.currentDeals))
                 /\ \A e \in Range(l.result) :
                      IF e.id \in expected
                      THEN e = DetailEntry(e.id, ResultOf(l, e.id).lastModifiedDate)
                      ELSE e = EntryOf(cached, e.id)

C5_Witness ==
  \E r \in Req :
    LET l == loc[r] IN
      /\ SetStage(r) /\ l.route = "diff" /\ FailedIds(l) = {}
      /\ Ids(l.cachedDeals.data) \ Ids(l.currentDeals) # {}
      /\ Ids(l.currentDeals) \ Ids(l.cachedDeals.data) # {}
      /\ Ids(l.currentDeals) \ ExpectedChanged(l.cachedDeals.data, l.currentDeals) # {}

\* C6: a pass whose listing shows no changed, new or deleted id issues no
\* detail fetch, and the snapshot it leaves is the one it read.
NoChange(l) ==
  /\ l.cachedDeals.present
  /\ Ids(l.currentDeals) = Ids(l.cachedDeals.data)
  /\ ExpectedChanged(l.cachedDeals.data, l.currentDeals) = {}
C6_Step ==
  \A r \in Req :
    (SetStage(r) /\ loc[r].route # "full" /\ NoChange(loc[r]) /\ pc'[r] = "done")
      => /\ loc[r].nFetch = 0
         /\ loc[r].result = loc[r].cachedDeals.data
         /\ GetDealsCache' = loc[r].cachedDeals
C6_NoChangeNoFetch == [][C6_Step]_vars

C6_Witness ==
  \E r \in Req :
    /\ pc[r] = "done" /\ loc[r].route = "nochange" /\ loc[r].outcome = "completed"
    /\ Len(resp[r].data) > 0

\* C7: in a pass, a failed detail fetch of one changed id does not keep the
\* other changed ids from being fetched and merged, and the failed id keeps
\* its cached entry in the merged data.
C7_FailureIsolated ==
  \A r \in Req :
    LET l == loc[r] IN
      (SetStage(r) /\ l.route = "diff") =>
        \A k \in 1..Len(l.changedDealIds) :
          l.updatedDeals[k].status = "null" =>
            /\ \A j \in 1..Len(l.changedDealIds) :
                 /\ l.updatedDeals[j].status # "pending"
                 /\ l.updatedDeals[j].status = "ok" =>
                      DetailEntry(l.changedDealIds[j],
                                  l.updatedDeals[j].lastModifiedDate) \in Range(l.result)
            /\ l.changedDealIds[k] \in Ids(l.cachedDeals.data) =>
                 \A e \in Range(l.result) :
                   e.id = l.changedDealIds[k]
                     => e = EntryOf(l.cachedDeals.data, l.changedDealIds[k])
            /\ l.changedDealIds[k] \in Ids(l.cachedDeals.data) =>
                 l.changedDealIds[k] \in Ids(l.result)

C7_Witness ==
  \E r \in Req :
    LET l == loc[r] IN
      /\ SetStage(r) /\ l.route = "diff"
      /\ \E k, j \in 1..Len(l.changedDealIds) :
           /\ l.updatedDeals[k].status = "null"
           /\ l.changedDealIds[k] \in Ids(l.cachedDeals.data)
           /\ l.updatedDeals[j].status = "ok"
           /\ j > k

\* The listing a pass computed its data from: fetchAllDeals' own listing on
\* the full-fetch route, the cheap listing otherwise.
BasisListing(l) == IF l.route = "full" THEN l.deals ELSE l.currentDeals
\* The listed ids the cache did not hold and whose detail fetch failed.
FailedNewIds(l) == FailedIds(l) \ Ids(l.cachedDeals.data)

\* C8 as stated: every snapshot handed to setDealsCache holds exactly the
\* ids of the listing of its pass.
C8_CompleteView ==
  \A r \in Req : SetStage(r) => Ids(loc[r].result) = Ids(BasisListing(loc[r]))

\* C8 amended: it holds the listed ids except the new ids whose detail fetch
\* failed; a bootstrap holds them all.
C8_CompleteButFailedNew ==
  \A r \in Req :
    SetStage(r) =>
      /\ Ids(loc[r].result) = Ids(BasisListing(loc[r])) \ FailedNewIds(loc[r])
      /\ loc[r].route = "full" => Ids(loc[r].result) = Ids(loc[r].deals)

C8_Witness ==
  \E r \in Req :
    /\ SetStage(r) /\ loc[r].route = "diff"
    /\ FailedNewIds(loc[r]) # {}
    /\ Ids(loc[r].result) # {}

\* C9 as stated: once a snapshot has been written, no later GET /api/deals
\* is answered with an error.
C9_NeverAnError ==
  \A r \in Req : (kind[r] = "get" /\ loc[r].afterWrite) => resp[r].kind # "error"

\* C9 amended: once a snapshot has been written, a later GET /api/deals that
\* finds a snapshot in the store is answered with that snapshot's data, and
\* nothing that follows (a failed background refresh included) changes the
\* answer; an error can only answer a GET that found the store empty.
C9_Step ==
  \A r \in Req :
    /\ (pc[r] = "new" /\ kind'[r] = "get" /\ everWritten /\ GetDealsCache.present)
         => resp'[r] = DataResp("cache", GetDealsCache.data)
    /\ (kind[r] = "get" /\ resp[r].kind = "data") => resp'[r] = resp[r]
    /\ (kind'[r] = "get" /\ resp[r].kind # "error" /\ resp'[r].kind = "error")
         => loc[r].ctx = "handler"
C9_DataWhileSnapshotExists == [][C9_Step]_vars

C9_Witness ==
  \E r \in Req :
    /\ kind[r] = "get" /\ loc[r].afterWrite /\ pc[r] = "done"
    /\ loc[r].outcome = "failed"
    /\ resp[r].kind = "data" /\ resp[r].path = "cache" /\ Len(resp[r].data) > 0

\* C10: an upstream failure reaches the caller of GET /api/deals only on the
\* bootstrap path; a request answered from the cache keeps its data answer
\* when its background pass fails.
C10_ErrorOnlyOnBootstrap ==
  \A r \in Req :
    kind[r] = "get" =>
      /\ resp[r].kind = "error" => (resp[r].path = "bootstrap" /\ loc[r].outcome = "none")
      /\ resp[r].path = "cache" => resp[r].kind = "data"
      /\ loc[r].outcome = "failed" => (resp[r].kind = "data" /\ resp[r].path = "cache")

C10_Witness ==
  \E r, q \in Req :
    /\ kind[r] = "get" /\ resp[r].kind = "error" /\ resp[r].path = "bootstrap"
    /\ kind[q] = "get" /\ loc[q].outcome = "failed" /\ resp[q].kind = "data"

\* C11: when the request before a GET /api/deals was a clear of the deal
\* cache that had completed (POST /api/clear-cache, or a stage PATCH that
\* succeeded), the GET is not answered from a snapshot that a pass in flight
\* at the clear computed from what it had read before the clear.
Cleared(q) == kind[q] \in {"clear", "patch"} /\ pc[q] = "done" /\ resp[q] = OkResp
C11_Step ==
  \A r \in Req \ {1} :
    (pc[r] = "new" /\ kind'[r] = "get" /\ Cleared(r - 1))
      => ~( /\ resp'[r].path = "cache"
            /\ \E q \in Req : /\ loc[q].preClear
                              /\ loc[q].outcome = "completed"
                              /\ lastWrite.present )
C11_FreshAfterClear == [][C11_Step]_vars

\* ------------------------------------------------------------------
\* getLastMeetingDate
\* ------------------------------------------------------------------
\* The start/occurred time of a meeting, and the latest over a set of
\* meetings (NoTime when none has one).
MeetingTime(m) ==
  IF MeetingProps(m).hs_meeting_start_time # NoTime
  THEN MeetingProps(m).hs_meeting_start_time ELSE MeetingProps(m).hs_timestamp
MaxTimeOf(S) ==
  LET times == {MeetingTime(m) : m \in S} \ {NoTime}
  IN IF times = {} THEN NoTime ELSE CHOOSE t \in times : \A u \in times : u <= t

\* C12: a call that finds the entry an earlier call stored for the same id
\* set returns the cached date, issues no meeting-detail fetch and leaves the
\* entry alone, whatever the age of the entry.
C12_Step ==
  \A c \in Calls :
    ( /\ mpc[c] = "m_read" /\ mpc'[c] # "m_read"
      /\ cache_meetings.present
      /\ cache_meetings.meetingIds = StringifyIds(mloc[c].currentMeetingIds) )
    => /\ mpc'[c] = "done"
       /\ mloc'[c].outcome = "hit"
       /\ mloc'[c].ret = cache_meetings.lastMeetingDate
       /\ mloc'[c].nFetch = 0
       /\ cache_meetings' = cache_meetings
C13_OneRefetchPerChange ==
  \A a, b \in Calls :
    ( /\ mloc[a].changedByOne /\ mloc[a].cycle
      /\ mloc[b].changedByOne /\ mloc[b].cycle
      /\ mloc[a].version = mloc[b].version )
    => a = b

\* C14 as stated: an entry with a well-formed id set holds the latest
\* start/occurred time over the meetings of that set.
C14_DateIsMaximum ==
  (cache_meetings.present /\ cache_meetings.meetingIds.kind = "json")
    => cache_meetings.lastMeetingDate = MaxTimeOf(Range(cache_meetings.meetingIds.ids))

\* C15 as stated: a call that sees no meeting returns null without a detail
\* fetch and leaves an entry with an empty id set and a null date.
C15_Step ==
  \A c \in Calls :
    ( /\ mpc[c] \in {"m_read", "m_set"} /\ mpc'[c] = "done"
      /\ mloc[c].currentMeetingIds = <<>> )
    => /\ mloc'[c].ret = NoTime
       /\ mloc'[c].nFetch = 0
       /\ cache_meetings'.present
       /\ ~ParseThrows(cache_meetings'.meetingIds)
       /\ ParsedIds(cache_meetings'.meetingIds) = <<>>
       /\ cache_meetings'.lastMeetingDate = NoTime
C15_ZeroMeetingsCached == [][C15_Step]_vars

\* C16: a call that finds an entry whose id text cannot be parsed neither
\* fails nor hits; it fetches every current id, and stores and returns the
\* date derived from them with the current ids as well-formed text.
C16_Step ==
  \A c \in Calls :
    /\ ( /\ mpc[c] = "m_read" /\ mpc'[c] # "m_read"
         /\ cache_meetings.present /\ ParseThrows(cache_meetings.meetingIds) )
       => /\ mpc'[c] = IF mloc[c].currentMeetingIds = <<>> THEN "m_set" ELSE "m_fetch"
          /\ mloc'[c].sawInvalid
          /\ mloc'[c].outcome = "none"
    /\ (mpc[c] = "m_set" /\ mpc'[c] = "done" /\ mloc[c].sawInvalid)
       => /\ mloc[c].nFetch = Len(mloc[c].currentMeetingIds)
          /\ mloc[c].lastMeetingDate = LastMeetingDate(mloc[c].meetings)
          /\ cache_meetings' = Row(mloc[c].lastMeetingDate,
                                   StringifyIds(mloc[c].currentMeetingIds), now)
          /\ mloc'[c].ret = mloc[c].lastMeetingDate
          /\ mloc'[c].outcome = "stored"
C16_InvalidIdsAreAMiss == [][C16_Step]_vars

C16_Witness ==
  \E c \in Calls :
    /\ mloc[c].sawInvalid /\ mloc[c].outcome = "stored"
    /\ mloc[c].ret # NoTime
    /\ cache_meetings.meetingIds.kind = "json"
    /\ Len(cache_meetings.meetingIds.ids) > 1

\* ------------------------------------------------------------------
\* processBatch
\* ------------------------------------------------------------------
\* The invocations that have started and not settled, and the group of a position.
InFlightItems == {p \in blog.started : blog.returned[p] = NoValue}
GroupNo(p) == (p - 1) \div batchSize
\* ceil(n / size)
Groups(n, size) == (n + size - 1) \div size

\* C17: processBatch returns as many results as items, the k-th being what
\* the call on the k-th item returned, in whatever order the calls settled.
C17_ResultsInItemOrder ==
  /\ Len(results) <= Len(items)
  /\ \A k \in 1..Len(results) : results[k] = blog.returned[k] /\ results[k] # NoValue
  /\ bpc = "done" =>
       /\ Len(results) = Len(items)
       /\ \A k \in 1..Len(items) : results[k] \in {OkValue(items[k]), NullValue}

C17_Witness ==
  /\ bpc = "done" /\ Len(items) > batchSize
  /\ Len(settleOrder) > 1 /\ settleOrder[1] > settleOrder[2]
  /\ items[Len(items)] # items[Len(items) - 1]
  /\ results[Len(items)].status = "ok" /\ results[Len(items) - 1].status = "ok"

\* C18: no call of a later group has started while a call of an earlier
\* group is unsettled; at most batchSize calls are in flight.
C18_GroupsInSequence ==
  /\ Cardinality(InFlightItems) <= batchSize
  /\ \A p, q \in blog.started :
       GroupNo(p) < GroupNo(q) => blog.returned[p] # NoValue

C18_Witness ==
  /\ bpc = "await" /\ iBatch > 1
  /\ Cardinality(InFlightItems) = batchSize /\ batchSize > 1

\* C19: processBatch waits once between two consecutive groups and not
\* after the last: max(0, ceil(n / batchSize) - 1) times in all.
C19_DelaysBetweenGroups ==
  LET g == Groups(Len(items), batchSize) IN
    /\ blog.delays <= (IF g = 0 THEN 0 ELSE g - 1)
    /\ blog.delays <= GroupNo(iBatch) + 1
    /\ bpc = "done" => blog.delays = (IF g = 0 THEN 0 ELSE g - 1)
    /\ bpc = "delay" => iBatch + batchSize <= Len(items)

C19_Witness ==
  /\ bpc = "done" /\ blog.delays > 0
  /\ batchSize > 1 /\ Len(items) % batchSize # 0

\* C20: the failure of one item does not end processBatch: every item is
\* processed and has its result, the failed ones null.
C20_FailureDoesNotAbort ==
  /\ bpc # "thrown"
  /\ bpc = "done" =>
       /\ blog.started = 1..Len(items)
       /\ Len(results) = Len(items)
       /\ \A k \in 1..Len(items) :
            /\ blog.returned[k] # NoValue
            /\ results[k] # NullValue => results[k] = OkValue(items[k])

C20_Witness ==
  /\ bpc = "done" /\ Len(items) > batchSize /\ batchSize > 1
  /\ results[1] = NullValue
  /\ results[2].status = "ok"
  /\ results[Len(items)].status = "ok"

\* ===================================================================
\* One group of processBatch(deals, processFn, BATCH_SIZE, BATCH_DELAY):
\* the hubspotApi.get calls the processFn of each deal of the group issues.

MaxGroupMeetings == 2
CallsPerDeal == 4

\* What the lookups of one deal will find: whether the deal has an associated
\* company and contact, whether getCompanyCache / getContactCache hit, how
\* many meetings the company's association listing holds and whether the
\* meeting entry of the company holds exactly that id set.
NoCompany ==
  [company |-> FALSE, companyCached |-> FALSE, meetings |-> 0, meetingsCached |-> FALSE]

CompanyLookups ==
  {NoCompany} \cup
  [company : {TRUE}, companyCached : BOOLEAN, meetings : 0..MaxGroupMeetings,
   meetingsCached : BOOLEAN]

ContactLookups ==
  {[contact |-> FALSE, contactCached |-> FALSE]} \cup
  [contact : {TRUE}, contactCached : BOOLEAN]

DealLookups ==
  {[company |-> c.company, companyCached |-> c.companyCached,
    meetings |-> c.meetings, meetingsCached |-> c.meetingsCached,
    contact |-> p.contact, contactCached |-> p.contactCached] :
      c \in CompanyLookups, p \in ContactLookups}

At(k, a) == gmode # "off" /\ k \in DOMAIN gpc /\ gpc[k].at = a

Goto(k, a) == gpc' = [gpc EXCEPT ![k] = [at |-> a, left |-> 0]]

Call(k) == apiCalls' = [apiCalls EXCEPT ![k] = @ + 1]

\* Where an error thrown in the body of processFn lands: fetchChangedDeals
\* wraps the whole body in one try (the deal becomes null); fetchAllDeals has
\* a try around each part and goes on with the next part.
Thrown(k, next) == IF gmode = "changed" THEN Goto(k, "failed") ELSE Goto(k, next)

\* fetchChangedDeals: GET /crm/v3/objects/deals/<id> with associations.
FetchDealDetail(k) ==
  /\ At(k, "detail")
  /\ gmode = "changed"
  /\ Call(k)
  /\ \E ok \in BOOLEAN : IF ok THEN Goto(k, "company") ELSE Goto(k, "failed")
  /\ UNCHANGED <<dealVars, meetVars, batchVars, auxVars, kvVars, sugVars, stVars, gmode, gdeal>>

\* getCompanyCache, and on a miss GET /crm/v3/objects/companies/<id>.
GetCompany(k) ==
  /\ At(k, "company")
  /\ IF ~gdeal[k].company
     THEN Goto(k, "contact") /\ UNCHANGED apiCalls
     ELSE IF gdeal[k].companyCached
     THEN Goto(k, "assoc") /\ UNCHANGED apiCalls
     ELSE /\ Call(k)
          /\ \E ok \in BOOLEAN : IF ok THEN Goto(k, "assoc") ELSE Thrown(k, "contact")
  /\ UNCHANGED <<dealVars, meetVars, batchVars, auxVars, kvVars, sugVars, stVars, gmode, gdeal>>

\* getLastMeetingDate: GET .../companies/<id>/associations/meetings; the
\* cached date is returned when the id sets agree, null when there is no
\* meeting; its own catch turns a failure into null.
ListMeetings(k) ==
  /\ At(k, "assoc")
  /\ Call(k)
  /\ \E ok \in BOOLEAN :
       IF ok /\ ~gdeal[k].meetingsCached /\ gdeal[k].meetings > 0
       THEN gpc' = [gpc EXCEPT ![k] = [at |-> "meetings", left |-> gdeal[k].meetings]]
       ELSE Goto(k, "contact")
  /\ UNCHANGED <<dealVars, meetVars, batchVars, auxVars, kvVars, sugVars, stVars, gmode, gdeal>>

\* getLastMeetingDate: GET /crm/v3/objects/meetings/<id>, one per meeting
\* id; a failure is caught for that meeting alone.
FetchMeeting(k) ==
  /\ At(k, "meetings")
  /\ gpc[k].left > 0
  /\ Call(k)
  /\ IF gpc[k].left = 1
     THEN Goto(k, "contact")
     ELSE gpc' = [gpc EXCEPT ![k].left = @ - 1]
  /\ UNCHANGED <<dealVars, meetVars, batchVars, auxVars, kvVars, sugVars, stVars, gmode, gdeal>>

\* getContactCache, and on a miss GET /crm/v3/objects/contacts/<id>.
GetContact(k) ==
  /\ At(k, "contact")
  /\ IF ~gdeal[k].contact \/ gdeal[k].contactCached
     THEN Goto(k, "stage") /\ UNCHANGED apiCalls
     ELSE /\ Call(k)
          /\ \E ok \in BOOLEAN : IF ok THEN Goto(k, "stage") ELSE Thrown(k, "stage")
  /\ UNCHANGED <<dealVars, meetVars, batchVars, auxVars, kvVars, sugVars, stVars, gmode, gdeal>>

\* GET /crm/v3/objects/deals/<id> for the stage history (fetchAllDeals) or
\* for hs_date_entered_<stage> (fetchChangedDeals).
FetchStage(k) ==
  /\ At(k, "stage")
  /\ Call(k)
  /\ \E ok \in BOOLEAN : IF ok THEN Goto(k, "done") ELSE Thrown(k, "done")
  /\ UNCHANGED <<dealVars, meetVars, batchVars, auxVars, kvVars, sugVars, stVars, gmode, gdeal>>

InitGroup ==
  /\ DealsInit
  /\ USE_DATABASE = FALSE
  /\ MeetOff
  /\ BatchOff
  /\ AuxOff
  /\ KvOff
  /\ SugOff
  /\ StageOff
  /\ gmode \in {"all", "changed"}
  /\ gdeal \in UNION {[1..n -> DealLookups] : n \in 1..BATCH_SIZE}
  /\ gpc = [k \in DOMAIN gdeal |->
              [at |-> IF gmode = "changed" THEN "detail" ELSE "company", left |-> 0]]
  /\ apiCalls = [k \in DOMAIN gdeal |-> 0]

NextGroup ==
  \E k \in 1..BATCH_SIZE :
    \/ FetchDealDetail(k)
    \/ GetCompany(k)
    \/ ListMeetings(k)
    \/ FetchMeeting(k)
    \/ GetContact(k)
    \/ FetchStage(k)

SpecGroup == InitGroup /\ [][NextGroup]_vars

RECURSIVE SumTo(_, _)
SumTo(f, n) == IF n = 0 THEN 0 ELSE f[n] + SumTo(f, n - 1)

\* C21: while one group of BATCH_SIZE deals is processed by fetchAllDeals or
\* fetchChangedDeals, each deal issues at most 4 upstream calls and the group
\* at most BATCH_SIZE * 4 = 8.
C21_AtMostEightCalls ==
  gmode # "off" =>
    /\ \A k \in DOMAIN apiCalls : apiCalls[k] <= CallsPerDeal
    /\ SumTo(apiCalls, Len(apiCalls)) <= BATCH_SIZE * CallsPerDeal

\* ===================================================================
\* db.js: the cache operations of both backings, applied side by side to the
\* same calls at the same clock readings.

MaxKvKeys == 2
MaxKvValue == 1
MaxKvClock == 2
MaxKvOps == 3

KvCaches == {"companies", "contacts", "meetings"}
KvKeys == 1..MaxKvKeys
\* maxAgeMs as the callers pass it: a duration, or Infinity.
KvInfinity == MaxKvClock + 1
KvMaxAges == {1, KvInfinity}

\* The objects handed to setCompanyCache / setContactCache: the property name
\* holds a string (1, 2, ...) or is undefined.
ItemValues_Kv == {[name |-> n] : n \in 0..MaxKvValue}
\* The (lastMeetingDate, meetingIds) handed to setMeetingCache: an ISO string
\* or null, and JSON text or null.
MeetingValues ==
  [lastMeetingDate : {NoTime} \cup 1..MaxKvValue,
   meetingIds : {NullText, StringifyIds(<<1>>)}]
KvValues(c) == IF c = "meetings" THEN MeetingValues ELSE ItemValues_Kv
\* The arrays handed to setDealsCache.
SnapshotValues == {<<BootstrapEntry(1)>>, <<DetailEntry(1, 1), DetailEntry(2, 1)>>}

\* JSON.stringify(data) for the JSONB column: a property whose value is
\* undefined is dropped; reading the missing property back gives undefined.
StringifyItem(v) == IF v.name = Undefined THEN [props |-> {}] ELSE [props |-> {<<"name", v.name>>}]
ParseItem(j) ==
  [name |-> IF \E pr \in j.props : pr[1] = "name"
            THEN (CHOOSE pr \in j.props : pr[1] = "name")[2] ELSE Undefined]

\* What a get returns: null, or the value.
Miss == [hit |-> FALSE]
Hit(v) == [hit |-> TRUE, value |-> v]

NoEntry == [present |-> FALSE]

\* Deliberately wrong variant: an existing entry is kept as it is.
MemSet_KeepExisting(store, c, k, v, t) ==
  IF store[c][k].present THEN store
  ELSE [store EXCEPT ![c][k] =
     IF c = "meetings"
     THEN [present |-> TRUE, lastMeetingDate |-> v.lastMeetingDate,
           meetingIds |-> v.meetingIds, cachedAt |-> t]
     ELSE [present |-> TRUE, data |-> v, cachedAt |-> t]]

\* memoryStore.<cache>.set(key, {data, cachedAt: Date.now()}); the meeting
\* entry holds {lastMeetingDate, meetingIds, cachedAt}.
MemSet(store, c, k, v, t) ==
  [store EXCEPT ![c][k] =
     IF c = "meetings"
     THEN [present |-> TRUE, lastMeetingDate |-> v.lastMeetingDate,
           meetingIds |-> v.meetingIds, cachedAt |-> t]
     ELSE [present |-> TRUE, data |-> v, cachedAt |-> t]]

\* memoryStore.<cache>.get(key), the age test, the value.
MemGet(store, c, k, maxAgeMs, t) ==
  LET cached == store[c][k]
  IN IF ~cached.present THEN Miss
     ELSE IF Expired(t - cached.cachedAt, maxAgeMs) THEN Miss
     ELSE IF c = "meetings"
     THEN Hit([lastMeetingDate |-> cached.lastMeetingDate, meetingIds |-> cached.meetingIds])
     ELSE Hit(cached.data)

\* INSERT ... VALUES (key, ..., NOW()) ON CONFLICT (key) DO UPDATE SET ...,
\* cached_at = NOW(): one row per key, holding the JSON text of the value (or
\* the date and the id text) and the time of the write.
DbSet(tables, c, k, v, t) ==
  [tables EXCEPT ![c][k] =
     IF c = "meetings"
     THEN [present |-> TRUE, last_meeting_date |-> v.lastMeetingDate,
           meeting_ids |-> v.meetingIds, cached_at |-> t]
     ELSE [present |-> TRUE, data |-> StringifyItem(v), cached_at |-> t]]

\* Deliberately wrong variant: the durable get answers null for a row whose id text is
\* NULL.
DbGet_NullIdsMiss(tables, c, k, maxAgeMs, t) ==
  LET row == tables[c][k]
  IN IF ~row.present THEN Miss
     ELSE IF Expired(t - row.cached_at, maxAgeMs) THEN Miss
     ELSE IF c = "meetings"
     THEN IF row.meeting_ids = NullText THEN Miss
          ELSE Hit([lastMeetingDate |-> row.last_meeting_date, meetingIds |-> row.meeting_ids])
     ELSE Hit(ParseItem(row.data))

\* SELECT ... WHERE key = $1; no row: null; age = Date.now() - cached_at;
\* the parsed JSONB value, or {lastMeetingDate: ISO string or null, meetingIds}.
DbGet(tables, c, k, maxAgeMs, t) ==
  LET row == tables[c][k]
  IN IF ~row.present THEN Miss
     ELSE IF Expired(t - row.cached_at, maxAgeMs) THEN Miss
     ELSE IF c = "meetings"
     THEN Hit([lastMeetingDate |-> IF row.last_meeting_date # NoTime
                                   THEN row.last_meeting_date ELSE NoTime,
               meetingIds |-> row.meeting_ids])
     ELSE Hit(ParseItem(row.data))

\* getDealsCache: memoryStore.deals, or the row with the greatest last_fetched.
MemGetDeals(store) ==
  IF ~store.deals.present THEN Miss
  ELSE Hit([data |-> store.deals.data, lastFetched |-> store.deals.lastFetched])
DbGetDeals(tables) ==
  IF Len(tables.cache_deals) = 0 THEN Miss
  ELSE LET row == tables.cache_deals[Len(tables.cache_deals)]
       IN Hit([data |-> Parse(row.data), lastFetched |-> row.last_fetched])

\* setDealsCache(data), run to completion: the slot is assigned; the rows are
\* deleted and one row is inserted.
MemSetDeals(store, data, t) ==
  [store EXCEPT !.deals = [present |-> TRUE, data |-> data, lastFetched |-> t]]
DbSetDeals(tables, data, t) ==
  [tables EXCEPT !.cache_deals = <<[data |-> Stringify(data), last_fetched |-> t]>>]

\* clearDealsCache
MemClearDeals(store) == [store EXCEPT !.deals = NoEntry]
DbClearDeals(tables) == [tables EXCEPT !.cache_deals = <<>>]

NoCall == [op |-> "none", cache |-> "none", key |-> 0, maxAgeMs |-> 0, at |-> 0,
           mem |-> Miss, db |-> Miss]
\* The call without the call before it.
Flat(l) == [op |-> l.op, cache |-> l.cache, key |-> l.key, maxAgeMs |-> l.maxAgeMs,
            at |-> l.at, mem |-> l.mem, db |-> l.db]
Log(op, c, k, maxAgeMs, m, d) ==
  [op |-> op, cache |-> c, key |-> k, maxAgeMs |-> maxAgeMs, at |-> kvNow,
   mem |-> m, db |-> d, prev |-> Flat(kvLog)]

KvOn == kvOps < MaxKvOps /\ kvLog # <<>>

\* set<Company|Contact|Meeting>Cache(k, v) on both backings.
KvSet(c, k, v) ==
  /\ KvOn
  /\ kvMem' = MemSet(kvMem, c, k, v, kvNow)
  /\ kvDb' = DbSet(kvDb, c, k, v, kvNow)
  /\ kvWritten' = [kvWritten EXCEPT ![c][k] = [present |-> TRUE, value |-> v, at |-> kvNow]]
  /\ kvLog' = Log("set", c, k, 0, Miss, Miss)
  /\ kvOps' = kvOps + 1
  /\ UNCHANGED <<dealVars, meetVars, batchVars, auxVars, groupVars, sugVars, stVars, kvNow>>

\* get<Company|Contact|Meeting>Cache(k, maxAgeMs) on both backings.
KvGet(c, k, maxAgeMs) ==
  /\ KvOn
  /\ kvLog' = Log("get", c, k, maxAgeMs,
                  MemGet(kvMem, c, k, maxAgeMs, kvNow), DbGet(kvDb, c, k, maxAgeMs, kvNow))
  /\ kvOps' = kvOps + 1
  /\ UNCHANGED <<dealVars, meetVars, batchVars, auxVars, groupVars, sugVars, stVars, kvMem, kvDb, kvNow, kvWritten>>

\* getDealsCache() on both backings.
KvGetDeals ==
  /\ KvOn
  /\ kvLog' = Log("getDeals", "deals", 0, 0, MemGetDeals(kvMem), DbGetDeals(kvDb))
  /\ kvOps' = kvOps + 1
  /\ UNCHANGED <<dealVars, meetVars, batchVars, auxVars, groupVars, sugVars, stVars, kvMem, kvDb, kvNow, kvWritten>>

\* setDealsCache(data) on both backings.
KvSetDeals(data) ==
  /\ KvOn
  /\ kvMem' = MemSetDeals(kvMem, data, kvNow)
  /\ kvDb' = DbSetDeals(kvDb, data, kvNow)
  /\ kvLog' = Log("setDeals", "deals", 0, 0, Miss, Miss)
  /\ kvOps' = kvOps + 1
  /\ UNCHANGED <<dealVars, meetVars, batchVars, auxVars, groupVars, sugVars, stVars, kvNow, kvWritten>>

\* clearDealsCache() on both backings.
KvClearDeals ==
  /\ KvOn
  /\ kvMem' = MemClearDeals(kvMem)
  /\ kvDb' = DbClearDeals(kvDb)
  /\ kvLog' = Log("clearDeals", "deals", 0, 0, Miss, Miss)
  /\ kvOps' = kvOps + 1
  /\ UNCHANGED <<dealVars, meetVars, batchVars, auxVars, groupVars, sugVars, stVars, kvNow, kvWritten>>

\* Time passes between two calls.
KvTick ==
  /\ kvLog # <<>>
  /\ kvNow < MaxKvClock
  /\ kvNow' = kvNow + 1
  /\ UNCHANGED <<dealVars, meetVars, batchVars, auxVars, groupVars, sugVars, stVars, kvMem, kvDb, kvLog, kvWritten, kvOps>>

\* Both backings empty, as at start-up with new tables.
InitKv ==
  /\ DealsInit
  /\ USE_DATABASE = FALSE
  /\ MeetOff
  /\ BatchOff
  /\ AuxOff
  /\ GroupOff
  /\ SugOff
  /\ StageOff
  /\ kvMem = [deals |-> NoEntry,
              companies |-> [k \in KvKeys |-> NoEntry],
              contacts |-> [k \in KvKeys |-> NoEntry],
              meetings |-> [k \in KvKeys |-> NoEntry]]
  /\ kvDb = [cache_deals |-> <<>>,
             companies |-> [k \in KvKeys |-> NoEntry],
             contacts |-> [k \in KvKeys |-> NoEntry],
             meetings |-> [k \in KvKeys |-> NoEntry]]
  /\ kvNow = 0
  /\ kvLog = [op |-> "none", cache |-> "none", key |-> 0, maxAgeMs |-> 0, at |-> 0,
              mem |-> Miss, db |-> Miss, prev |-> NoCall]
  /\ kvWritten = [c \in KvCaches |-> [k \in KvKeys |-> NoEntry]]
  /\ kvOps = 0

NextKv ==
  \/ \E c \in KvCaches, k \in KvKeys : \E v \in KvValues(c) : KvSet(c, k, v)
  \/ \E c \in KvCaches, k \in KvKeys, maxAgeMs \in KvMaxAges : KvGet(c, k, maxAgeMs)
  \/ KvGetDeals
  \/ \E data \in SnapshotValues : KvSetDeals(data)
  \/ KvClearDeals
  \/ KvTick

SpecKv == InitKv /\ [][NextKv]_vars

\* ----------------------------------------------- properties of the caches
GetLogged == kvLog # <<>> /\ kvLog.op = "get"
WrittenOf(l) == kvWritten[l.cache][l.key]

C23_MissIffAbsentOrExpired ==
  GetLogged =>
    LET w == WrittenOf(kvLog)
        miss == ~w.present \/ kvLog.at - w.at > kvLog.maxAgeMs
    IN /\ kvLog.mem = (IF miss THEN Miss ELSE Hit(w.value))
       /\ kvLog.db = (IF miss THEN Miss ELSE Hit(w.value))

\* An expired read of an entry followed by a read of the same key with a
\* larger maxAge, which is answered from the entry.
C23_Witness ==
  /\ GetLogged
  /\ kvLog.prev.op = "get"
  /\ kvLog.prev.cache = kvLog.cache
  /\ kvLog.prev.key = kvLog.key
  /\ WrittenOf(kvLog).present
  /\ kvLog.prev.mem = Miss
  /\ kvLog.prev.db = Miss
  /\ kvLog.maxAgeMs > kvLog.prev.maxAgeMs
  /\ kvLog.mem.hit
  /\ kvLog.db.hit

MaxEngagements == 2
MaxEngTime == 2
MaxSugCalls == 2
TopN == 3

EngIds == 1..MaxEngagements
\* The deals: deal 1 has a company and a contact, deal 2 the same contact and
\* no company, deal 3 neither.
SugDeals == 1..3
CompanyOf(d) == IF d = 1 THEN "company" ELSE "none"
ContactOf(d) == IF d \in {1, 2} THEN "contact" ELSE "none"
StorageIds == {"company", "contact"}

\* Engagement 1 is a NOTE, the others are EMAILs.
TypeOf(id) == IF id = 1 THEN "NOTE" ELSE "EMAIL"

NoEng == [present |-> FALSE]
\* An upstream engagement: its timestamp, the version of its text, and the
\* objects it is associated with.
Eng(ts, text, on) == [present |-> TRUE, timestamp |-> ts, text |-> text, on |-> on]
Associations == {{"company"}, {"contact"}, {"company", "contact"}}

\* The suggestion texts.
NoAssociationText == [kind |-> "No company or contact associated", n |-> 0]
NoActivityText == [kind |-> "No recent activity. Reach out to re-engage", n |-> 0]
ErrorText == [kind |-> "Error generating next step", n |-> 0]
AiText(n) == [kind |-> "ai", n |-> n]

\* processed_engagement (lines 69-82)
Processed(id) ==
  [id |-> id, type |-> TypeOf(id), timestamp |-> hub[id].timestamp,
   content |-> hub[id].text, metadata |-> hub[id].text]

\* Array.prototype.sort((a, b) => b.timestamp - a.timestamp): stable,
\* descending by timestamp.
RECURSIVE SortDesc(_)
SortDesc(s) ==
  IF Len(s) = 0 THEN <<>>
  ELSE LET k == CHOOSE i \in 1..Len(s) :
                  /\ \A j \in 1..Len(s) : s[j].timestamp <= s[i].timestamp
                  /\ \A j \in 1..(i - 1) : s[j].timestamp < s[i].timestamp
       IN <<s[k]>> \o SortDesc(SubSeq(s, 1, k - 1) \o SubSeq(s, k + 1, Len(s)))

\* Array.prototype.filter, slice(0, n)
RECURSIVE Filter(_, _)
Filter(s, type) ==
  IF Len(s) = 0 THEN <<>>
  ELSE (IF s[1].type = type THEN <<s[1]>> ELSE <<>>) \o Filter(Tail(s), type)
Take(s, n) == SubSeq(s, 1, IF Len(s) < n THEN Len(s) ELSE n)

\* Lines 90-94: the three newest notes, then the three newest emails.
Prioritized(sorted) ==
  Take(Filter(sorted, "NOTE"), TopN) \o Take(Filter(sorted, "EMAIL"), TopN)

\* fetchCompanyEngagements / fetchContactEngagements: the notes and emails
\* associated with the object, in upstream order (by id), sorted and cut.
FetchEngagements(object) ==
  LET ids == SortedSeq({id \in EngIds : hub[id].present /\ object \in hub[id].on})
  IN Prioritized(SortDesc([k \in 1..Len(ids) |-> Processed(ids[k])]))

\* db.saveEngagement, memory: replace the entry of that id in the storage
\* id's array, or push.
MemSaveEngagement(store, storageId, e) ==
  LET list == store[storageId]
      at == {k \in 1..Len(list) : list[k].id = e.id}
  IN IF at # {}
     THEN [store EXCEPT ![storageId][CHOOSE k \in at : \A j \in at : k <= j] = e]
     ELSE [store EXCEPT ![storageId] = Append(list, e)]

\* db.saveEngagement, database: insert a row; on a row with that
\* engagement_id (whatever its company_id) set content and metadata only.
DbSaveEngagement(rows, storageId, e) ==
  IF \E r \in rows : r.engagement_id = e.id
  THEN {IF r.engagement_id = e.id
        THEN [r EXCEPT !.content = e.content, !.metadata = e.metadata] ELSE r : r \in rows}
  ELSE rows \cup {[company_id |-> storageId, engagement_id |-> e.id,
                   engagement_type |-> e.type, timestamp |-> e.timestamp,
                   content |-> e.content, metadata |-> e.metadata]}

\* for (const engagement of engagements) await db.saveEngagement(storageId, engagement)
RECURSIVE MemSaveAll(_, _, _)
MemSaveAll(store, storageId, es) ==
  IF Len(es) = 0 THEN store
  ELSE MemSaveAll(MemSaveEngagement(store, storageId, es[1]), storageId, Tail(es))
RECURSIVE DbSaveAll(_, _, _)
DbSaveAll(rows, storageId, es) ==
  IF Len(es) = 0 THEN rows
  ELSE DbSaveAll(DbSaveEngagement(rows, storageId, es[1]), storageId, Tail(es))

MaxOf(S) == IF S = {} THEN NoTime ELSE CHOOSE x \in S : \A y \in S : y <= x

\* db.getLastEngagementTimestamp(storageId): null, or the greatest timestamp
\* stored under the storage id.
GetLastEngagementTimestamp(storageId) ==
  IF ~USE_DATABASE
  THEN MaxOf({engagements[storageId][k].timestamp : k \in 1..Len(engagements[storageId])})
  ELSE MaxOf({r.timestamp : r \in {q \in company_engagements : q.company_id = storageId}})

NoStep == [present |-> FALSE, next_step |-> NoActivityText, last_engagement_timestamp |-> NoTime]
Step(text, ts) == [present |-> TRUE, next_step |-> text, last_engagement_timestamp |-> ts]

\* Deliberately wrong variant: a stored suggestion is served although a refresh is forced.
ServeStored_IgnoreForce(forceRefresh, existing, latest) ==
  /\ existing.present
  /\ existing.last_engagement_timestamp # NoTime
  /\ latest # NoTime
  /\ latest <= existing.last_engagement_timestamp

\* Lines 344-356: the stored text is returned when no refresh is forced, a
\* record exists, both timestamps are there and the latest stored one is not
\* newer than the record's.
ServeStored(forceRefresh, existing, latest) ==
  /\ ~forceRefresh
  /\ existing.present
  /\ existing.last_engagement_timestamp # NoTime
  /\ latest # NoTime
  /\ latest <= existing.last_engagement_timestamp

\* Deliberately wrong variant: a failure of the generator call is thrown to the caller.
GenerateNextStep_Throws(es, aiOk) ==
  IF Len(es) = 0 THEN [thrown |-> FALSE, text |-> NoActivityText, ai |-> FALSE]
  ELSE IF aiOk THEN [thrown |-> FALSE, text |-> AiText(aiCount + 1), ai |-> TRUE]
  ELSE [thrown |-> TRUE, text |-> ErrorText, ai |-> TRUE]

\* generateNextStep: without engagements the fixed text and no generator
\* call; else the generator's text, or the sentinel when the call fails.
GenerateNextStep(es, aiOk) ==
  IF Len(es) = 0 THEN [thrown |-> FALSE, text |-> NoActivityText, ai |-> FALSE]
  ELSE IF aiOk THEN [thrown |-> FALSE, text |-> AiText(aiCount + 1), ai |-> TRUE]
  ELSE [thrown |-> FALSE, text |-> ErrorText, ai |-> TRUE]

SugLog(d, forceRefresh, existing, latest, regenerated, gen, aiOk, fetchOk, ret, fresh, es) ==
  [deal |-> d, forceRefresh |-> forceRefresh,
   existing |-> existing,        \* getNextStep(dealId) at the start of the call
   latest |-> latest,            \* getLastEngagementTimestamp(storageId) at the start
   regenerated |-> regenerated,  \* engagements fetched, generateNextStep called
   ai |-> gen.ai,                \* the generator was called
   aiOk |-> aiOk,                \* ... and answered
   fetchOk |-> fetchOk,          \* the engagement fetches answered
   thrown |-> gen.thrown,        \* the call ended with an exception
   returned |-> ret,             \* the text returned
   hadCompleted |-> sugHist[d].completed,  \* a call for the deal completed before
   fresh |-> fresh,              \* communication arrived since that call
   saved |-> {es[k].timestamp : k \in 1..Len(es)},  \* timestamps of the engagements saved
   genTs |-> IF Len(es) > 0 THEN es[1].timestamp ELSE NoTime]  \* lastEngagementTimestamp

SugOn == sugLog # <<>> /\ sugCalls < MaxSugCalls

\* generateNextStepForDeal(deal, contactId, forceRefresh), one call.
GenerateNextStepForDeal(d, forceRefresh) ==
  LET companyId == CompanyOf(d)
      contactId == ContactOf(d)
      storageId == IF companyId # "none" THEN companyId ELSE contactId
  IN
  /\ SugOn
  /\ sugCalls' = sugCalls + 1
  /\ IF companyId = "none" /\ contactId = "none"
     THEN /\ sugLog' = SugLog(d, forceRefresh, NoStep, NoTime, FALSE,
                              [thrown |-> FALSE, ai |-> FALSE], TRUE, TRUE,
                              NoAssociationText, FALSE, <<>>)
          /\ UNCHANGED <<engagements, company_engagements, nextSteps, aiCount, sugHist>>
     ELSE
       LET existing == nextSteps[d]
           latest == GetLastEngagementTimestamp(storageId)
       IN IF ServeStored(forceRefresh, existing, latest)
          THEN /\ sugLog' = SugLog(d, forceRefresh, existing, latest, FALSE,
                                   [thrown |-> FALSE, ai |-> FALSE], TRUE, TRUE,
                                   existing.next_step, sugHist[d].fresh, <<>>)
               /\ sugHist' = [sugHist EXCEPT ![d] = [completed |-> TRUE, fresh |-> FALSE]]
               /\ UNCHANGED <<engagements, company_engagements, nextSteps, aiCount>>
          ELSE \E fetchOk, aiOk \in BOOLEAN :
               LET fromCompany == IF companyId # "none" /\ fetchOk
                                  THEN FetchEngagements(companyId) ELSE <<>>
                   es == IF Len(fromCompany) = 0 /\ contactId # "none"
                         THEN (IF fetchOk THEN FetchEngagements(contactId) ELSE <<>>)
                         ELSE fromCompany
                   gen == GenerateNextStep(es, aiOk)
                   lastEngagementTimestamp == IF Len(es) > 0 THEN es[1].timestamp ELSE NoTime
               IN /\ (Len(es) = 0 => aiOk)
                  /\ IF USE_DATABASE
                     THEN /\ company_engagements' = DbSaveAll(company_engagements, storageId, es)
                          /\ UNCHANGED engagements
                     ELSE /\ engagements' = MemSaveAll(engagements, storageId, es)
                          /\ UNCHANGED company_engagements
                  /\ aiCount' = IF gen.ai /\ aiOk THEN aiCount + 1 ELSE aiCount
                  /\ nextSteps' = IF gen.thrown THEN nextSteps
                                  ELSE [nextSteps EXCEPT ![d] = Step(gen.text, lastEngagementTimestamp)]
                  /\ sugLog' = SugLog(d, forceRefresh, existing, latest, TRUE, gen, aiOk,
                                      fetchOk, gen.text, sugHist[d].fresh, es)
                  /\ sugHist' = [sugHist EXCEPT ![d] =
                                   [completed |-> ~gen.thrown, fresh |-> FALSE]]
  /\ UNCHANGED <<dealVars, meetVars, batchVars, auxVars, groupVars, kvVars, stVars, hub>>

\* A new note or email is logged upstream.
NewEngagement(id, ts, on) ==
  /\ sugLog # <<>>
  /\ ~hub[id].present
  /\ hub' = [hub EXCEPT ![id] = Eng(ts, 1, on)]
  /\ sugHist' = [d \in SugDeals |-> [sugHist[d] EXCEPT !.fresh = TRUE]]
  /\ UNCHANGED <<dealVars, meetVars, batchVars, auxVars, groupVars, kvVars, stVars, engagements,
                 company_engagements, nextSteps, aiCount, sugLog, sugCalls>>

\* The text of an engagement is edited upstream.
EditEngagement(id) ==
  /\ sugLog # <<>>
  /\ hub[id].present
  /\ hub[id].text = 1
  /\ hub' = [hub EXCEPT ![id].text = 2]
  /\ UNCHANGED <<dealVars, meetVars, batchVars, auxVars, groupVars, kvVars, stVars, engagements,
                 company_engagements, nextSteps, aiCount, sugLog, sugHist, sugCalls>>

InitSug ==
  /\ DealsInit
  /\ MeetOff
  /\ BatchOff
  /\ AuxOff
  /\ GroupOff
  /\ KvOff
  /\ StageOff
  /\ hub = [id \in EngIds |-> NoEng]
  /\ engagements = [s \in StorageIds |-> <<>>]
  /\ company_engagements = {}
  /\ nextSteps = [d \in SugDeals |-> NoStep]
  /\ aiCount = 0
  /\ sugLog = [deal |-> 0]
  /\ sugHist = [d \in SugDeals |-> [completed |-> FALSE, fresh |-> FALSE]]
  /\ sugCalls = 0

NextSug ==
  \/ \E d \in SugDeals, forceRefresh \in BOOLEAN : GenerateNextStepForDeal(d, forceRefresh)
  \/ \E id \in EngIds, ts \in 1..MaxEngTime, on \in Associations : NewEngagement(id, ts, on)
  \/ \E id \in EngIds : EditEngagement(id)

SpecSug == InitSug /\ [][NextSug]_vars

\* ------------------------------------- properties of the suggestion gate
Called == sugLog # <<>> /\ sugLog.deal # 0
HasId(d) == CompanyOf(d) # "none" \/ ContactOf(d) # "none"

\* C25: for a deal with a company or contact id, a call with forceRefresh,
\* and a call that finds no stored suggestion, regenerates: it fetches the
\* engagements, calls generateNextStep and overwrites the deal's record with
\* the text it returns.
C25_RegeneratesWhenForcedOrNoRecord ==
  (Called /\ HasId(sugLog.deal) /\ (sugLog.forceRefresh \/ ~sugLog.existing.present))
    => /\ sugLog.regenerated
       /\ nextSteps[sugLog.deal].present
       /\ nextSteps[sugLog.deal].next_step = sugLog.returned

\* A forced call replaced a stored suggestion that an unforced call would
\* have served.
C25_Witness ==
  /\ Called
  /\ sugLog.forceRefresh
  /\ ServeStored(FALSE, sugLog.existing, sugLog.latest)
  /\ sugLog.regenerated
  /\ sugLog.returned # sugLog.existing.next_step
  /\ nextSteps[sugLog.deal].next_step = sugLog.returned

\* C26: without forceRefresh and with a stored suggestion, the call
\* regenerates only if the latest stored engagement timestamp of the parent
\* is strictly newer than the record's; otherwise it returns the stored text
\* and does not regenerate. (A missing timestamp is NoTime, newer than nothing.)
C26_RegeneratesOnlyIfNewer ==
  (Called /\ HasId(sugLog.deal) /\ ~sugLog.forceRefresh /\ sugLog.existing.present)
    => LET newer == sugLog.latest > sugLog.existing.last_engagement_timestamp
       IN /\ sugLog.regenerated => newer
          /\ ~newer => ~sugLog.regenerated /\ sugLog.returned = sugLog.existing.next_step

\* C27: a call without forceRefresh that follows a completed call for the
\* same deal, with no new communication in between, returns the stored
\* suggestion and does not call the generator.
C27_NoRegenerationWithoutNews ==
  (Called /\ sugLog.hadCompleted /\ ~sugLog.forceRefresh /\ ~sugLog.fresh)
    => /\ ~sugLog.ai
       /\ sugLog.returned = sugLog.existing.next_step

\* C28: when the generator call fails, generateNextStep returns the sentinel
\* text and generateNextStepForDeal completes: the sentinel is returned and
\* stored as the deal's suggestion.
C28_GeneratorFailureYieldsSentinel ==
  (Called /\ sugLog.ai /\ ~sugLog.aiOk)
    => /\ ~sugLog.thrown
       /\ sugLog.returned = ErrorText
       /\ nextSteps[sugLog.deal] = Step(ErrorText, nextSteps[sugLog.deal].last_engagement_timestamp)
       /\ sugHist[sugLog.deal].completed

C28_Witness ==
  /\ Called
  /\ sugLog.ai
  /\ ~sugLog.aiOk
  /\ sugLog.returned = ErrorText
  /\ nextSteps[sugLog.deal].present

\* The records the active engagement store holds for an engagement id.
RecordsOf(id) ==
  IF sugLog = <<>> THEN 0
  ELSE IF USE_DATABASE
  THEN Cardinality({r \in company_engagements : r.engagement_id = id})
  ELSE Cardinality({<<s, k>> \in StorageIds \X (1..MaxEngagements) :
                      k <= Len(engagements[s]) /\ engagements[s][k].id = id})

\* C29: after any sequence of saveEngagement calls the engagement store
\* holds at most one record per engagement id.
C29_OneRecordPerId ==
  \A id \in EngIds : RecordsOf(id) <= 1

\* ===================================================================
\* server.js: daysInStage, as fetchAllDeals and fetchChangedDeals derive it.

MaxStages == 2
MaxStageClock == 4
MaxHistory == 3
TicksPerDay == 2

Stages == 1..MaxStages

NullDays == [null |-> TRUE, days |-> 0]
Days(n) == [null |-> FALSE, days |-> n]
NoDeal == [present |-> FALSE, daysInStage |-> NullDays]
Entry(d) == [present |-> TRUE, daysInStage |-> d]

\* [...stageHistory].sort((a, b) => new Date(b.timestamp) - new Date(a.timestamp)):
\* stable, descending by timestamp. HubSpot lists the newest entry first.
Reverse(s) == [k \in 1..Len(s) |-> s[Len(s) + 1 - k]]
SortedHistory(history) == SortDesc(Reverse(history))

\* Deliberately wrong variant: the oldest entry of the current stage is taken.
CurrentStageEntry_Oldest(sorted, stageId) ==
  LET at == {k \in 1..Len(sorted) : sorted[k].value = stageId}
  IN IF at = {} THEN [found |-> FALSE, timestamp |-> 0]
     ELSE [found |-> TRUE, timestamp |-> sorted[CHOOSE k \in at : \A j \in at : j <= k].timestamp]

\* sortedHistory.find(entry => entry.value === stageId)
CurrentStageEntry(sorted, stageId) ==
  LET at == {k \in 1..Len(sorted) : sorted[k].value = stageId}
  IN IF at = {} THEN [found |-> FALSE, timestamp |-> 0]
     ELSE [found |-> TRUE, timestamp |-> sorted[CHOOSE k \in at : \A j \in at : k <= j].timestamp]

\* Math.floor(diffMs / (1000 * 60 * 60 * 24))
DaysBetween(t, entered) == (t - entered) \div TicksPerDay

\* fetchAllDeals, lines 285-301: null without history or without an entry of
\* the current stage, else the whole days since that entry.
DaysFromHistory(history, stageId, t) ==
  IF Len(history) = 0 THEN NullDays
  ELSE LET e == CurrentStageEntry(SortedHistory(history), stageId)
       IN IF e.found THEN Days(DaysBetween(t, e.timestamp)) ELSE NullDays

\* HubSpot's property hs_date_entered_<stage>: the time the deal last entered
\* the stage, when it ever did.
DateEntered(history, stageId) ==
  LET ts == {history[k].timestamp : k \in {j \in 1..Len(history) : history[j].value = stageId}}
  IN IF ts = {} THEN [found |-> FALSE, timestamp |-> 0]
     ELSE [found |-> TRUE, timestamp |-> CHOOSE x \in ts : \A y \in ts : y <= x]

\* fetchChangedDeals, lines 444-451
DaysFromProperty(history, stageId, t) ==
  LET stageEntryDate == DateEntered(history, stageId)
  IN IF stageEntryDate.found THEN Days(DaysBetween(t, stageEntryDate.timestamp)) ELSE NullDays

StageOn == stLog # <<>>

StLog(mode, ok) ==
  [mode |-> mode, ok |-> ok, history |-> stageHistory, stage |-> dealstage, at |-> stNow,
   before |-> stEntry]

\* fetchAllDeals, lines 277-317: the history call and its own try/catch; the
\* entry is built either way.
StageOfAllDeals ==
  /\ StageOn
  /\ \E ok \in BOOLEAN :
       /\ stEntry' = Entry(IF ok THEN DaysFromHistory(stageHistory, dealstage, stNow)
                           ELSE NullDays)
       /\ stLog' = StLog("all", ok)
  /\ UNCHANGED <<dealVars, meetVars, batchVars, auxVars, groupVars, kvVars, sugVars,
                 stageHistory, dealstage, stNow>>

\* fetchChangedDeals, lines 440-485: the call is inside the try of the whole
\* processFn, so a failure makes the deal's result null, and the merge keeps
\* the cached entry of the deal (or none for a new deal).
StageOfChangedDeal ==
  /\ StageOn
  /\ \E ok \in BOOLEAN :
       /\ stEntry' = IF ok THEN Entry(DaysFromProperty(stageHistory, dealstage, stNow))
                     ELSE stEntry
       /\ stLog' = StLog("changed", ok)
  /\ UNCHANGED <<dealVars, meetVars, batchVars, auxVars, groupVars, kvVars, sugVars,
                 stageHistory, dealstage, stNow>>

\* The deal is moved to another stage upstream.
MoveStage(s) ==
  /\ StageOn
  /\ s # dealstage
  /\ Len(stageHistory) < MaxHistory
  /\ stageHistory' = Append(stageHistory, [value |-> s, timestamp |-> stNow])
  /\ dealstage' = s
  /\ UNCHANGED <<dealVars, meetVars, batchVars, auxVars, groupVars, kvVars, sugVars,
                 stNow, stEntry, stLog>>

StageTick ==
  /\ StageOn
  /\ stNow < MaxStageClock
  /\ stNow' = stNow + 1
  /\ UNCHANGED <<dealVars, meetVars, batchVars, auxVars, groupVars, kvVars, sugVars,
                 stageHistory, dealstage, stEntry, stLog>>

\* A deal in some stage, with the history entry of its creation or (a deal
\* whose history the API does not return) none; not yet in the snapshot.
InitStage ==
  /\ DealsInit
  /\ USE_DATABASE = FALSE
  /\ MeetOff
  /\ BatchOff
  /\ AuxOff
  /\ GroupOff
  /\ KvOff
  /\ SugOff
  /\ dealstage \in Stages
  /\ stageHistory \in {<<>>, <<[value |-> dealstage, timestamp |-> 0]>>}
  /\ stNow = 0
  /\ stEntry = NoDeal
  /\ stLog = [mode |-> "none"]

NextStage ==
  \/ StageOfAllDeals
  \/ StageOfChangedDeal
  \/ \E s \in Stages : MoveStage(s)
  \/ StageTick

SpecStage == InitStage /\ [][NextStage]_vars

\* -------------------------------------------- properties of daysInStage
Computed == stLog # <<>> /\ stLog.mode # "none"

\* The times of the history entries of the stage the deal was in.
EnteredTimes(l) ==
  {l.history[k].timestamp : k \in {j \in 1..Len(l.history) : l.history[j].value = l.stage}}

\* The whole days from the latest of these times to the computation; null
\* when there is none.
ExpectedDays(l) ==
  IF EnteredTimes(l) = {} THEN NullDays
  ELSE Days((l.at - (CHOOSE x \in EnteredTimes(l) : \A y \in EnteredTimes(l) : y <= x))
              \div TicksPerDay)

\* C30, as stated: the deal's daysInStage is the whole number of days since
\* the most recent history entry of its current stage, and null when there
\* is no such entry or the fetch failed.
C30_NullOnFetchFailure ==
  (Computed /\ stEntry.present)
    => stEntry.daysInStage = (IF stLog.ok THEN ExpectedDays(stLog) ELSE NullDays)

\* C30, amended: a computation that got its answer gives the whole days
\* since the most recent entry of the current stage, or null without one; a
\* failed fetch gives null in fetchAllDeals, and in fetchChangedDeals leaves
\* the deal's cached entry (and its daysInStage) as it was.
C30_DaysInStage ==
  Computed =>
    IF stLog.ok THEN stEntry = Entry(ExpectedDays(stLog))
    ELSE IF stLog.mode = "all" THEN stEntry = Entry(NullDays)
    ELSE stEntry = stLog.before

\* A deal that entered its current stage twice, at different times, and
\* whose daysInStage was computed at least a day after the last entry.
C30_Witness ==
  /\ Computed
  /\ stLog.ok
  /\ Cardinality(EnteredTimes(stLog)) > 1
  /\ stEntry.present
  /\ ~stEntry.daysInStage.null
  /\ stEntry.daysInStage.days > 0

\* ======================================================================
\* db.clearAllCaches, db.js lines 329-346, on both backings
\* ======================================================================
MaxClrKeys == 1

\* The stores of memoryStore (db.js lines 7-15) and the table behind each.
ClrStores == {"deals", "companies", "meetings", "contacts", "pipelineStages",
              "engagements", "nextSteps"}
ClrTables == {"cache_deals", "cache_companies", "cache_meetings", "cache_contacts",
              "cache_pipeline_stages", "company_engagements", "deal_next_steps"}
TableOf(store) ==
  CASE store = "deals" -> "cache_deals"
    [] store = "companies" -> "cache_companies"
    [] store = "meetings" -> "cache_meetings"
    [] store = "contacts" -> "cache_contacts"
    [] store = "pipelineStages" -> "cache_pipeline_stages"
    [] store = "engagements" -> "company_engagements"
    [] store = "nextSteps" -> "deal_next_steps"

\* deals and pipelineStages are single slots; the others are keyed by id.
ClrKeysOf(store) ==
  IF store \in {"deals", "pipelineStages"} THEN {1} ELSE 1..MaxClrKeys

\* A set/save call of db.js, made on both backings: afterwards the store
\* holds something under the key (what it holds plays no part in a clear).
ClrSet(store, key) ==
  /\ clrLog # <<>>
  /\ key \in ClrKeysOf(store)
  /\ clrMem' = [clrMem EXCEPT ![store] = @ \cup {key}]
  /\ clrDb' = [clrDb EXCEPT ![TableOf(store)] = @ \cup {key}]
  /\ clrLog' = [op |-> "set", store |-> store, memBefore |-> clrMem, dbBefore |-> clrDb]
  /\ UNCHANGED <<failLog, isRefreshing, rpc, freshData, dealVars, meetVars, batchVars, groupVars, kvVars, sugVars, stVars>>

\* Lines 330-338: deals = null, companies/meetings/contacts.clear(),
\* pipelineStages = null, engagements.clear(), nextSteps.clear().
ClearAllCachesMemory(m) ==
  [s \in ClrStores |-> {}]

\* Lines 341-345: DELETE FROM cache_deals, cache_companies, cache_meetings,
\* cache_contacts, cache_pipeline_stages; no other table is named.
ClearAllCachesDatabase(d) ==
  [t \in ClrTables |->
     IF t \in {"cache_deals", "cache_companies", "cache_meetings", "cache_contacts",
               "cache_pipeline_stages"}
     THEN {} ELSE d[t]]

\* POST /api/cache/clear, server.js lines 540-548: clearAllCaches has returned.
ClearAllCaches ==
  /\ clrLog # <<>>
  /\ clrMem' = ClearAllCachesMemory(clrMem)
  /\ clrDb' = ClearAllCachesDatabase(clrDb)
  /\ clrLog' = [op |-> "clear", store |-> "all", memBefore |-> clrMem, dbBefore |-> clrDb]
  /\ UNCHANGED <<failLog, isRefreshing, rpc, freshData, dealVars, meetVars, batchVars, groupVars, kvVars, sugVars, stVars>>

\* Both backings start empty (lines 7-15; the tables of initializeDatabase).
InitClr ==
  /\ DealsInit
  /\ USE_DATABASE = FALSE
  /\ MeetOff
  /\ BatchOff
  /\ GroupOff
  /\ KvOff
  /\ SugOff
  /\ StageOff
  /\ FailOff
  /\ RefreshOff
  /\ clrMem = [s \in ClrStores |-> {}]
  /\ clrDb = [t \in ClrTables |-> {}]
  /\ clrLog = [op |-> "none", store |-> "none", memBefore |-> clrMem, dbBefore |-> clrDb]

NextClr ==
  \/ \E s \in ClrStores : \E k \in 1..MaxClrKeys : ClrSet(s, k)
  \/ ClearAllCaches

SpecClr == InitClr /\ [][NextClr]_vars

\* What the caches (not the engagement and suggestion stores) are.
ClrCaches == {"deals", "companies", "meetings", "contacts", "pipelineStages"}
AllCleared == clrLog # <<>> /\ clrLog.op = "clear"

\* C31: after clearAllCaches the deal snapshot, the company, contact and
\* meeting caches and the pipeline-stage cache are empty on both backings,
\* and the engagement and suggestion stores of the two backings are in the
\* same state (both emptied or both kept).
C31_ClearAllSameEffect ==
  AllCleared =>
    /\ \A s \in ClrCaches : clrMem[s] = {} /\ clrDb[TableOf(s)] = {}
    /\ \A s \in ClrStores \ ClrCaches : clrMem[s] = clrDb[TableOf(s)]

\* What does hold: the five caches are empty on both backings, the memory
\* backing has lost its engagements and suggestions, the database has kept them.
ClearAllActualEffect ==
  AllCleared =>
    /\ \A s \in ClrCaches : clrMem[s] = {} /\ clrDb[TableOf(s)] = {}
    /\ \A s \in ClrStores \ ClrCaches :
         clrMem[s] = {} /\ clrDb[TableOf(s)] = clrLog.dbBefore[TableOf(s)]

\* ------------------------------ properties of the stored suggestion record
\* The storage id of a deal (nextSteps.js line 341): companyId || contactId.
StorageIdOf(d) == IF CompanyOf(d) # "none" THEN CompanyOf(d) ELSE ContactOf(d)

Regenerated == Called /\ HasId(sugLog.deal) /\ sugLog.regenerated /\ ~sugLog.thrown

\* C37: the last_engagement_timestamp that a regenerating call stores in the
\* deal's record is the maximum timestamp among the engagements saved for
\* that generation (null when there are none), and so is not smaller than
\* getLastEngagementTimestamp evaluated right after the save.
C37_StoredTimestampIsMaximum ==
  Regenerated =>
    /\ nextSteps[sugLog.deal].last_engagement_timestamp = MaxOf(sugLog.saved)
    /\ nextSteps[sugLog.deal].last_engagement_timestamp
         >= GetLastEngagementTimestamp(StorageIdOf(sugLog.deal))

\* What the code stores: the timestamp of the first engagement of the list,
\* which is the newest note when there is a note.
StoredTimestampIsFirst ==
  Regenerated => nextSteps[sugLog.deal].last_engagement_timestamp = sugLog.genTs

\* C38: a regeneration whose generator call fails writes the sentinel text
\* with the generation's engagement timestamp as the deal's record, replacing
\* what was there; a later unforced call that finds the sentinel record and no
\* stored engagement newer than the record's timestamp returns the sentinel
\* from the record without regenerating.
C38_SentinelStoredAndServed ==
  /\ (Regenerated /\ sugLog.ai /\ ~sugLog.aiOk)
       => nextSteps[sugLog.deal] = Step(ErrorText, sugLog.genTs)
  /\ (/\ Called
      /\ HasId(sugLog.deal)
      /\ ~sugLog.forceRefresh
      /\ sugLog.existing.present
      /\ sugLog.existing.next_step = ErrorText
      /\ sugLog.latest <= sugLog.existing.last_engagement_timestamp)
       => /\ ~sugLog.regenerated
          /\ sugLog.returned = ErrorText
          /\ nextSteps[sugLog.deal] = sugLog.existing


\* ======================================================================
\* Properties of the snapshots that bootstrap and reconciliation write
\* ======================================================================
NoDuplicateIds(data) ==
  \A i, j \in 1..Len(data) : data[i].id = data[j].id => i = j

\* C39: the upstream listing holds each deal id once; then every snapshot
\* that bootstrap or reconciliation hands to setDealsCache, and so every
\* snapshot stored, holds each deal id at most once.
C39_SnapshotIdsUnique ==
  /\ \A r \in Req : pc[r] \in {"set", "set_insert"} => NoDuplicateIds(loc[r].result)
  /\ lastWrite.present => NoDuplicateIds(lastWrite.data)
  /\ GetDealsCache.present => NoDuplicateIds(GetDealsCache.data)

\* A reconciliation pass has merged fetched details into the cached
\* snapshot and stored a snapshot with a deal that the cache did not hold.
C39_Witness ==
  /\ \E r \in Req : /\ pc[r] = "done"
                    /\ loc[r].route = "diff"
                    /\ loc[r].outcome = "completed"
                    /\ loc[r].nFetch >= 2
  /\ GetDealsCache.present
  /\ Len(GetDealsCache.data) = MaxDeals

\* The state after one call for deal 1 when the only engagement upstream is
\* a note on the contact: the company has none, the call fell back to the
\* contact's engagements and saved the note under the company's id.
SharedNote == [id |-> 1, type |-> "NOTE", timestamp |-> 1, content |-> 1, metadata |-> 1]

InitSugShared ==
  /\ DealsInit
  /\ MeetOff
  /\ BatchOff
  /\ AuxOff
  /\ GroupOff
  /\ KvOff
  /\ StageOff
  /\ hub = [id \in EngIds |-> IF id = 1 THEN Eng(1, 1, {"contact"}) ELSE NoEng]
  /\ engagements = IF USE_DATABASE THEN [s \in StorageIds |-> <<>>]
                   ELSE MemSaveEngagement([s \in StorageIds |-> <<>>], "company", SharedNote)
  /\ company_engagements = IF USE_DATABASE
                           THEN DbSaveEngagement({}, "company", SharedNote) ELSE {}
  /\ nextSteps = [d \in SugDeals |-> IF d = 1 THEN Step(AiText(1), 1) ELSE NoStep]
  /\ aiCount = 1
  /\ sugLog = [deal |-> 0]
  /\ sugHist = [d \in SugDeals |-> [completed |-> d = 1, fresh |-> d # 1]]
  /\ sugCalls = 0

SpecSugShared == InitSugShared /\ [][NextSug]_vars

\* That state, as the first specification reaches it.
SugSharedReached ==
  /\ sugLog # <<>>
  /\ hub = [id \in EngIds |-> IF id = 1 THEN Eng(1, 1, {"contact"}) ELSE NoEng]
  /\ engagements = IF USE_DATABASE THEN [s \in StorageIds |-> <<>>]
                   ELSE MemSaveEngagement([s \in StorageIds |-> <<>>], "company", SharedNote)
  /\ company_engagements = IF USE_DATABASE
                           THEN DbSaveEngagement({}, "company", SharedNote) ELSE {}
  /\ nextSteps = [d \in SugDeals |-> IF d = 1 THEN Step(AiText(1), 1) ELSE NoStep]
  /\ aiCount = 1
  /\ sugHist = [d \in SugDeals |-> [completed |-> d = 1, fresh |-> d # 1]]

\* ======================================================================
\* GET /api/deals on the database backing when a query of the pool rejects
\* ======================================================================
NoFail == [op |-> "none", ctx |-> "none", before |-> Null, after |-> Null, alone |-> TRUE]
\* The query that rejected, for whom, the snapshot the store held before the
\* call it belongs to changed anything and the one it holds now, and whether
\* no other set or clear acted in between.
Fail(op, ctx, before, after, alone) ==
  [op |-> op, ctx |-> ctx, before |-> before, after |-> after, alone |-> alone]

FailFrame == <<meetVars, batchVars, groupVars, kvVars, sugVars, stVars, clrMem, clrDb, clrLog,
               isRefreshing, rpc, freshData,
               USE_DATABASE, memoryStore, cache_deals, upstream, nextId, upVersion,
               everWritten, lastWrite>>

\* What the request does once an awaited call has rejected: the route
\* answers 500 (lines 521-524), the pass logs the error (lines 514-516).
AfterRejection(r, fail) ==
  /\ pc' = [pc EXCEPT ![r] = "done"]
  /\ loc' = [loc EXCEPT ![r] = Finished(loc[r], IF loc[r].ctx = "pass"
                                               THEN "failed" ELSE "none")]
  /\ resp' = IF loc[r].ctx = "handler"
             THEN [resp EXCEPT ![r] = ErrorResp("bootstrap")] ELSE resp
  /\ failLog' = [failLog EXCEPT ![r] = fail]

\* Line 495: the SELECT of the route's getDealsCache rejects (db.js 142-144).
GetDealsRejects(r) ==
  /\ pc[r] = "new"
  /\ \A q \in Req : q < r => pc[q] # "new"
  /\ USE_DATABASE
  /\ kind' = [kind EXCEPT ![r] = "get"]
  /\ pc' = [pc EXCEPT ![r] = "done"]
  /\ resp' = [resp EXCEPT ![r] = ErrorResp("none")]
  /\ failLog' = [failLog EXCEPT ![r] =
                   Fail("select", "handler", GetDealsCache, GetDealsCache, TRUE)]
  /\ UNCHANGED <<FailFrame, loc>>

\* Line 360: the SELECT of the pass's getDealsCache rejects.
FetchChangedDealsReadRejects(r) ==
  /\ pc[r] = "fc_read"
  /\ USE_DATABASE
  /\ AfterRejection(r, Fail("select", loc[r].ctx, GetDealsCache, GetDealsCache, TRUE))
  /\ UNCHANGED <<FailFrame, kind>>

\* db.js line 158: the DELETE of setDealsCache rejects; no row is touched.
SetDealsCacheDeleteRejects(r) ==
  /\ pc[r] = "set"
  /\ USE_DATABASE
  /\ AfterRejection(r, Fail("delete", loc[r].ctx, GetDealsCache, GetDealsCache, TRUE))
  /\ UNCHANGED <<FailFrame, kind>>

\* db.js lines 159-162: the INSERT of setDealsCache rejects after its DELETE
\* was carried out (two queries, no transaction).
SetDealsCacheInsertRejects(r) ==
  /\ pc[r] = "set_insert"
  /\ AfterRejection(r, Fail("insert", loc[r].ctx, loc[r].old, GetDealsCache, ~loc[r].dirty))
  /\ UNCHANGED <<FailFrame, kind>>

InitFail ==
  /\ USE_DATABASE \in BOOLEAN
  /\ memoryStore = [deals |-> IF USE_DATABASE THEN Null ELSE Snapshot(WarmData)]
  /\ cache_deals = IF USE_DATABASE THEN <<[data |-> Stringify(WarmData)]>> ELSE <<>>
  /\ upstream = [d \in Deals |-> IF d <= InitialDeals THEN 1 ELSE Undefined]
  /\ nextId = InitialDeals + 1
  /\ upVersion = 0
  /\ pc = [r \in Req |-> "new"]
  /\ kind = [r \in Req |-> "none"]
  /\ loc = [r \in Req |-> LocInit]
  /\ resp = [r \in Req |-> NoResp]
  /\ everWritten = TRUE
  /\ lastWrite = Snapshot(WarmData)
  /\ MeetOff
  /\ BatchOff
  /\ GroupOff
  /\ KvOff
  /\ SugOff
  /\ StageOff
  /\ ClrOff
  /\ RefreshOff
  /\ failLog = [r \in Req |-> NoFail]

NextFail ==
  \/ NextWarm
  \/ \E r \in Req : GetDealsRejects(r)
  \/ \E r \in Req : FetchChangedDealsReadRejects(r)
  \/ \E r \in Req : SetDealsCacheDeleteRejects(r)
  \/ \E r \in Req : SetDealsCacheInsertRejects(r)

SpecFail == InitFail /\ [][NextFail]_vars

\* The pass of r has just failed as a whole.
PassFails(r) ==
  /\ loc[r].ctx = "pass"
  /\ pc[r] # "done"
  /\ pc'[r] = "done"
  /\ loc'[r].outcome = "failed"

\* C33: a background reconciliation pass that fails as a whole, because the
\* listing call or a query of the cache backing rejects, leaves the stored
\* deal snapshot exactly as it was before the pass: the failing step changes
\* nothing, and no step of the pass's setDealsCache has changed anything.
C33_FailedPassLeavesSnapshot ==
  /\ [][\A r \in Req : PassFails(r) =>
          /\ memoryStore' = memoryStore
          /\ cache_deals' = cache_deals]_vars
  /\ [](failLog # <<>> =>
          \A r \in Req : (failLog[r].ctx = "pass" /\ failLog[r].alone)
                            => failLog[r].after = failLog[r].before)

\* What does hold: a pass that fails before its setDealsCache has begun
\* leaves the snapshot as it was.
FailedBeforeSetLeavesSnapshot ==
  failLog # <<>> =>
    \A r \in Req : (failLog[r].ctx = "pass" /\ failLog[r].op # "insert")
                      => failLog[r].after = failLog[r].before

\* The modification marker of the upstream state that the snapshot's entry
\* of deal d was computed from (none for an absent or a bootstrap entry).
MarkerIn(snap, d) ==
  IF snap.present /\ CachedHas(snap.data, d) THEN CachedGet(snap.data, d) ELSE Undefined

\* C34: also when background passes overlap, no setDealsCache replaces a
\* stored deal entry by an entry computed from an older upstream state of
\* that deal: from one completed write to the next the marker of an entry
\* does not go back.
C34_SnapshotNeverRegresses ==
  [][\A d \in Deals :
       (MarkerIn(lastWrite, d) # Undefined /\ MarkerIn(lastWrite', d) # Undefined)
         => MarkerIn(lastWrite', d) >= MarkerIn(lastWrite, d)]_vars

\* The pass of r has merged and is storing the result.
Merged(r) == pc[r] \in {"set", "set_insert"} /\ loc[r].route = "diff"

\* The entry of deal d in the listing the pass of r took.
ListedAs(r, d) ==
  loc[r].currentDeals[CHOOSE k \in 1..Len(loc[r].currentDeals) :
                        loc[r].currentDeals[k].id = d]

PassCompleted == \E p \in Req : pc[p] = "done" /\ loc[p].outcome = "completed"

\* The request that arrives after a reconciliation pass has completed.
LateRequest == MaxRequests

\* The requests alone, from a stored snapshot; of the outcomes of each
\* upstream call only the successful one is taken. The last request arrives
\* once a pass has completed; the others arrive at any time.
NextQuiet ==
  \/ \E r \in Req : GetDeals(r) /\ (r = LateRequest => PassCompleted)
  \/ \E r \in Req : FetchAllDeals(r) /\ pc'[r] = "set"
  \/ \E r \in Req : FetchChangedDealsList(r) /\ pc'[r] = "fc_read"
  \/ \E r \in Req : FetchChangedDealsDiff(r)
  \/ \E r \in Req : \E j \in 1..MaxDeals :
       FetchDeal(r, j) /\ loc'[r].updatedDeals[j].status = "ok"
  \/ \E r \in Req : SetDealsCacheMemory(r)
  \/ \E r \in Req : SetDealsCacheDelete(r)
  \/ \E r \in Req : SetDealsCacheInsert(r)

SpecQuiet == InitWarm /\ [][NextQuiet]_vars

\* The pass of q found no changed and no deleted id and fetched no detail.
QuietPass(q) == loc[q].route = "nochange" /\ loc[q].nFetch = 0

\* C35: upstream unchanged and no fetch failing; the pass of a request that
\* arrives after a reconciliation pass has completed finds no changed and no
\* deleted id and issues zero detail fetches.
C35_QuiescentAfterPass ==
  (pc[LateRequest] = "done" /\ loc[LateRequest].outcome = "completed")
    => QuietPass(LateRequest)

\* On the memory backing that holds.
QuiescentOnMemory == ~USE_DATABASE => C35_QuiescentAfterPass

\* ======================================================================
\* refreshDealsInBackground, server.js lines 325-343
\* ======================================================================
MaxTriggers == 3
Triggers == 1..MaxTriggers

RefreshFrame == <<meetVars, batchVars, groupVars, kvVars, sugVars, stVars, clrMem, clrDb, clrLog,
                  failLog, USE_DATABASE, upstream, nextId, upVersion, pc, kind, loc, resp,
                  everWritten, lastWrite>>

\* Deliberately wrong variant: the flag is reset on the successful path only.
AfterTry_NoFinally(ok) == ~ok

\* Lines 340-342: finally { isRefreshing = false }, whether the try block
\* completed (ok) or threw.
AfterTry(ok) == FALSE

\* Lines 326-332: a call made while the flag is set returns at once; else
\* the flag is set and fetchAllDeals is started.
RefreshStart(t) ==
  /\ rpc[t] = "new"
  /\ \A u \in Triggers : u < t => rpc[u] # "new"
  /\ IF isRefreshing
     THEN /\ rpc' = [rpc EXCEPT ![t] = "skipped"]
          /\ UNCHANGED isRefreshing
     ELSE /\ rpc' = [rpc EXCEPT ![t] = "fetch"]
          /\ isRefreshing' = TRUE
  /\ UNCHANGED <<RefreshFrame, memoryStore, cache_deals, freshData>>

\* Line 335: fetchAllDeals answers with the data, or rejects (its listing
\* call rejected): catch, then finally.
RefreshFetch(t) ==
  /\ rpc[t] = "fetch"
  /\ \E ok \in BOOLEAN :
       IF ok
       THEN /\ rpc' = [rpc EXCEPT ![t] = "set"]
            /\ freshData' = [freshData EXCEPT ![t] =
                               [k \in 1..Len(Listing) |-> BootstrapEntry(Listing[k].id)]]
            /\ UNCHANGED isRefreshing
       ELSE /\ rpc' = [rpc EXCEPT ![t] = "failed"]
            /\ isRefreshing' = AfterTry(FALSE)
            /\ UNCHANGED freshData
  /\ UNCHANGED <<RefreshFrame, memoryStore, cache_deals>>

\* Line 336 on the memory backing (db.js 153-156), then finally.
RefreshSetMemory(t) ==
  /\ rpc[t] = "set"
  /\ ~USE_DATABASE
  /\ memoryStore' = [memoryStore EXCEPT !.deals = Snapshot(freshData[t])]
  /\ rpc' = [rpc EXCEPT ![t] = "done"]
  /\ isRefreshing' = AfterTry(TRUE)
  /\ UNCHANGED <<RefreshFrame, cache_deals, freshData>>

\* Line 336 on the database backing: the DELETE (db.js 158) is carried out,
\* or rejects: catch, then finally.
RefreshSetDelete(t) ==
  /\ rpc[t] = "set"
  /\ USE_DATABASE
  /\ \E ok \in BOOLEAN :
       IF ok
       THEN /\ cache_deals' = <<>>
            /\ rpc' = [rpc EXCEPT ![t] = "set_insert"]
            /\ UNCHANGED isRefreshing
       ELSE /\ rpc' = [rpc EXCEPT ![t] = "failed"]
            /\ isRefreshing' = AfterTry(FALSE)
            /\ UNCHANGED cache_deals
  /\ UNCHANGED <<RefreshFrame, memoryStore, freshData>>

\* The INSERT (db.js 159-162) is carried out, or rejects; then finally.
RefreshSetInsert(t) ==
  /\ rpc[t] = "set_insert"
  /\ \E ok \in BOOLEAN :
       IF ok
       THEN /\ cache_deals' = Append(cache_deals, [data |-> Stringify(freshData[t])])
            /\ rpc' = [rpc EXCEPT ![t] = "done"]
            /\ isRefreshing' = AfterTry(TRUE)
       ELSE /\ rpc' = [rpc EXCEPT ![t] = "failed"]
            /\ isRefreshing' = AfterTry(FALSE)
            /\ UNCHANGED cache_deals
  /\ UNCHANGED <<RefreshFrame, memoryStore, freshData>>

\* Deals come and go upstream while refreshes run.
RefreshUpstream ==
  /\ rpc # <<>>
  /\ \/ UpstreamCreate
     \/ \E d \in Deals : UpstreamModify(d)
     \/ \E d \in Deals : UpstreamDelete(d)

\* A stale snapshot is stored and the flag is idle (line 110).
InitRefresh ==
  /\ USE_DATABASE \in BOOLEAN
  /\ memoryStore = [deals |-> IF USE_DATABASE THEN Null ELSE Snapshot(WarmData)]
  /\ cache_deals = IF USE_DATABASE THEN <<[data |-> Stringify(WarmData)]>> ELSE <<>>
  /\ upstream = [d \in Deals |-> IF d <= InitialDeals THEN 1 ELSE Undefined]
  /\ nextId = InitialDeals + 1
  /\ upVersion = 0
  /\ pc = [r \in Req |-> "new"]
  /\ kind = [r \in Req |-> "none"]
  /\ loc = [r \in Req |-> LocInit]
  /\ resp = [r \in Req |-> NoResp]
  /\ everWritten = TRUE
  /\ lastWrite = Snapshot(WarmData)
  /\ MeetOff
  /\ BatchOff
  /\ GroupOff
  /\ KvOff
  /\ SugOff
  /\ StageOff
  /\ ClrOff
  /\ FailOff
  /\ isRefreshing = FALSE
  /\ rpc = [t \in Triggers |-> "new"]
  /\ freshData = [t \in Triggers |-> <<>>]

NextRefresh ==
  \/ \E t \in Triggers : RefreshStart(t)
  \/ \E t \in Triggers : RefreshFetch(t)
  \/ \E t \in Triggers : RefreshSetMemory(t)
  \/ \E t \in Triggers : RefreshSetDelete(t)
  \/ \E t \in Triggers : RefreshSetInsert(t)
  \/ RefreshUpstream

\* The steps of a refresh that has set the flag: every awaited call settles
\* (answers or rejects) and the continuation then runs.
RefreshStep(t) ==
  RefreshFetch(t) \/ RefreshSetMemory(t) \/ RefreshSetDelete(t) \/ RefreshSetInsert(t)

SpecRefresh ==
  /\ InitRefresh
  /\ [][NextRefresh]_vars
  /\ \A t \in Triggers : WF_vars(RefreshStep(t))

Refreshing(t) == rpc[t] \in {"fetch", "set", "set_insert"}

=============================================================================
